---------------------------- MODULE Spec2Model ----------------------------
(***************************************************************************)
(* Verification model of the go-genchain consensus engine                  *)
(* (consensus/ethash/consensus.go): batch header verification, header      *)
(* verification and difficulty stamping, and the reward accumulator.       *)
(***************************************************************************)
EXTENDS Integers, Sequences, FiniteSets, TLC

(***************************************************************************)
(* Arbitrary-precision naturals (math/big.Int, and uint64 where the code   *)
(* computes in machine words).  A value is its little-endian sequence of   *)
(* base-256 digits without leading zero digits; zero is the empty          *)
(* sequence.                                                               *)
(***************************************************************************)
BigBase == 256

\* The digits of s without its leading (most significant) zero digits.
BigNormV(s) ==
    IF \A i \in 1..Len(s) : s[i] = 0 THEN <<>>
    ELSE SubSeq(s, 1, CHOOSE i \in 1..Len(s) :
                          s[i] # 0 /\ \A j \in (i + 1)..Len(s) : s[j] = 0)
BigNorm(s) == CHOOSE r \in {BigNormV(x) : x \in {s}} : TRUE

\* The value of a machine-small natural.
RECURSIVE BigFromNat(_)
BigFromNat(n) ==
    IF n = 0 THEN <<>>
    ELSE <<n % BigBase>> \o BigFromNat(n \div BigBase)

\* The machine-small natural of a value below 2^31.
RECURSIVE BigToNat(_)
BigToNat(s) ==
    IF s = <<>> THEN 0
    ELSE s[1] + BigBase * BigToNat(Tail(s))

BigDigit(s, i) == IF i <= Len(s) THEN s[i] ELSE 0

BigMaxLen(a, b) == IF Len(a) >= Len(b) THEN Len(a) ELSE Len(b)

\* The most significant position at which a and b differ (0: none).
BigTopDiff(a, b) ==
    IF \A i \in 1..BigMaxLen(a, b) : BigDigit(a, i) = BigDigit(b, i) THEN 0
    ELSE CHOOSE i \in 1..BigMaxLen(a, b) :
             /\ BigDigit(a, i) # BigDigit(b, i)
             /\ \A j \in (i + 1)..BigMaxLen(a, b) : BigDigit(a, j) = BigDigit(b, j)

BigCmpAt(a, b, i) ==
    IF i = 0 THEN 0 ELSE IF BigDigit(a, i) < BigDigit(b, i) THEN -1 ELSE 1

BigCmpV(a, b) == CHOOSE r \in {BigCmpAt(a, b, i) : i \in {BigTopDiff(a, b)}} : TRUE

\* big.Int.Cmp: -1, 0 or 1, decided by the most significant differing digit.
BigCmp(a, b) == CHOOSE r \in {BigCmpV(x, y) : x \in {a}, y \in {b}} : TRUE

\* Carry propagation: the digits of the value sum of c[k] * 256^(k-1), for
\* coefficients c[k] that may exceed a digit or be negative (the value is not).
RECURSIVE BigCarry(_, _, _)
BigCarry(c, k, carry) ==
    IF k > Len(c) THEN BigFromNat(carry)
    ELSE CHOOSE r \in {<<t % BigBase>> \o BigCarry(c, k + 1, t \div BigBase) :
                           t \in {c[k] + carry}} : TRUE

\* c is evaluated once, before the propagation.
BigCarryAll(c) == CHOOSE r \in {BigNorm(BigCarry(x, 1, 0)) : x \in {c}} : TRUE

BigAddV(a, b) ==
    IF a = <<>> THEN b
    ELSE IF b = <<>> THEN a
    ELSE BigCarryAll(
             [k \in 1..BigMaxLen(a, b) |-> BigDigit(a, k) + BigDigit(b, k)])

\* big.Int.Add
BigAdd(a, b) == CHOOSE r \in {BigAddV(x, y) : x \in {a}, y \in {b}} : TRUE

BigSubV(a, b) ==
    IF b = <<>> THEN a
    ELSE BigCarryAll(
             [k \in 1..BigMaxLen(a, b) |-> BigDigit(a, k) - BigDigit(b, k)])

\* big.Int.Sub for a >= b.
BigSub(a, b) == CHOOSE r \in {BigSubV(x, y) : x \in {a}, y \in {b}} : TRUE

BigMulSmallV(a, k) ==
    IF a = <<>> THEN <<>>
    ELSE BigCarryAll([i \in 1..Len(a) |-> a[i] * k])

\* a * k for a machine-small k (k < 2^22).
BigMulSmall(a, k) == CHOOSE r \in {BigMulSmallV(x, y) : x \in {a}, y \in {k}} : TRUE

\* The coefficient of 256^(k-1) in a * b: the sum of a[i] * b[k + 1 - i]
\* over i from lo up.
RECURSIVE BigCoef(_, _, _, _)
BigCoef(a, b, k, lo) ==
    IF lo > Len(a) \/ lo > k THEN 0
    ELSE BigDigit(a, lo) * BigDigit(b, k + 1 - lo) + BigCoef(a, b, k, lo + 1)

BigMulV(a, b) ==
    IF a = <<>> \/ b = <<>> THEN <<>>
    ELSE BigCarryAll([k \in 1..(Len(a) + Len(b)) |-> BigCoef(a, b, k, 1)])

\* big.Int.Mul
BigMul(a, b) == CHOOSE r \in {BigMulV(x, y) : x \in {a}, y \in {b}} : TRUE

\* Long division by a machine-small k: the remainder left after the digits
\* at positions Len(a) down to i have been divided.
RECURSIVE BigRemFrom(_, _, _)
BigRemFrom(a, k, i) ==
    IF i > Len(a) THEN 0
    ELSE (BigRemFrom(a, k, i + 1) * BigBase + a[i]) % k

BigDivSmallV(a, k) ==
    IF a = <<>> THEN <<>>
    ELSE BigNorm([i \in 1..Len(a) |-> (BigRemFrom(a, k, i + 1) * BigBase + a[i]) \div k])

\* big.Int.Div by a machine-small positive k (k < 2^22).
BigDivSmall(a, k) == CHOOSE r \in {BigDivSmallV(x, y) : x \in {a}, y \in {k}} : TRUE

RECURSIVE Pow2(_)
Pow2(k) == IF k = 0 THEN 1 ELSE 2 * Pow2(k - 1)

\* big.Int.Rsh by k bits (k <= 21).
BigRsh(a, k) == BigDivSmall(a, Pow2(k))

\* 10^k
RECURSIVE BigPow10(_)
BigPow10(k) == IF k = 0 THEN <<1>> ELSE BigMulSmall(BigPow10(k - 1), 10)

U64V(a) == IF Len(a) <= 8 THEN a ELSE BigNorm(SubSeq(a, 1, 8))

\* A value reduced modulo 2^64: the low eight base-256 digits.
U64(a) == CHOOSE r \in {U64V(x) : x \in {a}} : TRUE

\* 2^64
BigTwo64 == [i \in 1..9 |-> IF i = 9 THEN 1 ELSE 0]

\* uint64 multiplication, wrapping modulo 2^64.
U64Mul(a, b) == U64(BigMul(a, b))

U64SubV(a, b) ==
    IF BigCmp(a, b) >= 0 THEN BigSub(a, b)
    ELSE BigSub(BigTwo64, BigSub(b, a))

\* uint64 subtraction, wrapping modulo 2^64.
U64Sub(a, b) == CHOOSE r \in {U64SubV(x, y) : x \in {a}, y \in {b}} : TRUE

(***************************************************************************)
(* Protocol constants.                                                     *)
(***************************************************************************)
\* params.N, params.P: initial and floor values of the difficulty parameters.
ParamsN == 2
ParamsP == 2
\* params.DifficultyBoundDivisor, MinimumDifficulty, DurationLimit.
DifficultyBoundDivisor == 2048
MinimumDifficulty == 131072
DurationLimit == 13
\* params.GasLimitBoundDivisor, MinGasLimit, MaximumExtraDataSize.
GasLimitBoundDivisor == 1024
MinGasLimit == 5000
MaximumExtraDataSize == 32
\* consensus.go: maxUncles, allowedFutureBlockTime (seconds).
maxUncles == 5
allowedFutureBlockTime == 12
\* consensus.go: expDiffPeriod, big2999999.
expDiffPeriod == 100000
big2999999 == 2999999
\* math.MaxBig256 = 2^256 - 1.
MaxBig256 == [i \in 1..32 |-> 255]
\* 0x7fffffffffffffff, the gas limit cap of verifyHeader.
GasCap == [i \in 1..8 |-> IF i = 8 THEN 127 ELSE 255]

\* A fork height that is not configured (a nil *big.Int in ChainConfig).
NoFork == -1

\* ChainConfig.IsHomestead / IsByzantium / IsSeafork / IsEIP158: a fork is
\* active at num when its height is configured and not above num.
isForked(s, num) == s # NoFork /\ s <= num
IsHomestead(config, num) == isForked(config.HomesteadBlock, num)
IsByzantium(config, num) == isForked(config.ByzantiumBlock, num)
IsSeafork(config, num) == isForked(config.SeaForkBlock, num)

\* Engine modes (ethash.Mode).
ModeNormal == "ModeNormal"
ModeFake == "ModeFake"
ModeShared == "ModeShared"
ModeTest == "ModeTest"
ModeFullFake == "ModeFullFake"

\* Error kinds.  nil is success.
Nil == "nil"
ErrUnknownAncestor == "ErrUnknownAncestor"
ErrFutureBlock == "ErrFutureBlock"
ErrInvalidNumber == "ErrInvalidNumber"
errLargeBlockTime == "errLargeBlockTime"
errZeroBlockTime == "errZeroBlockTime"
errInvalidDifficulty == "errInvalidDifficulty"
errInvalidMixDigest == "errInvalidMixDigest"
errInvalidPoW == "errInvalidPoW"
errExtraTooLong == "extra-data too long"
errDifficultyMismatch == "invalid difficulty"
errGasLimitCap == "invalid gasLimit"
errGasUsed == "invalid gasUsed"
errGasLimitBounds == "invalid gas limit"
ErrBadDAOExtra == "ErrBadDAOExtra"
ErrBadForkHash == "ErrBadForkHash"
errTooManyUncles == "errTooManyUncles"
errDuplicateUncle == "errDuplicateUncle"
errUncleIsAncestor == "errUncleIsAncestor"
errDanglingUncle == "errDanglingUncle"

(***************************************************************************)
(* Headers and the chain accessor.                                         *)
(***************************************************************************)
\* The absent header (a nil *types.Header).
NoHeader == [absent |-> TRUE]

\* The zero hash (the genesis header's ParentHash).
ZeroHash == <<>>

\* header.Hash(): the digest of every field of the header; two headers have
\* the same hash exactly when they agree on every field.
Hash(h) ==
    <<h.ParentHash, h.Number, h.Time, h.Difficulty, h.GasLimit, h.GasUsed,
      h.ExtraLen, h.UncleHash, h.Coinbase, h.N, h.P, h.NN, h.PP, h.Alpha,
      h.NP, h.Rewards, h.FuzzyOK, h.TargetOK, h.DAOExtraOK, h.ForkHashOK>>

\* chain.GetHeader(hash, number): the header stored under that hash and
\* number, or nil.  The chain is the sequence of canonical headers, the
\* header of number k at position k + 1.
GetHeader(chain, hash, number) ==
    IF \E i \in 1..Len(chain) : Hash(chain[i]) = hash /\ chain[i].Number = number
    THEN chain[CHOOSE i \in 1..Len(chain) :
                  Hash(chain[i]) = hash /\ chain[i].Number = number]
    ELSE NoHeader

\* chain.GetHeaderByNumber(number): the canonical header of that number.
GetHeaderByNumber(chain, number) ==
    IF number >= 0 /\ number < Len(chain) THEN chain[number + 1] ELSE NoHeader

(***************************************************************************)
(* Difficulty engine.                                                      *)
(***************************************************************************)
calcnpClamp(n, p) ==
    LET n1 == IF n <= ParamsN THEN ParamsN ELSE n
        p1 == IF p <= ParamsP THEN ParamsP ELSE p
        p2 == IF p1 > 256 THEN 256 ELSE p1
    IN  <<n1, p2>>

\* Variant of calcnp: n and p are lowered and raised without the guards and
\* the result is not clamped.
calcnpUnguarded(timespan, n, p) ==
    IF timespan < 102 THEN <<n, p + 1>>
    ELSE IF timespan < 108 THEN <<n + 1, p>>
    ELSE IF timespan > 138 THEN <<n, p - 1>>
    ELSE IF timespan > 132 THEN <<n - 1, p>>
    ELSE <<n, p>>

\* Variant of calcnp for p < 256: the four branches are one flat chain of
\* compound conditions, so a timespan above 138 with p at the floor falls
\* through to the branch that lowers n.
calcnpFlat(timespan, n, p) ==
    IF p < 256
    THEN LET a == IF timespan < 102 THEN <<n, p + 1>>
                  ELSE IF timespan < 108 THEN <<n + 1, p>>
                  ELSE IF timespan > 138 /\ p > ParamsP THEN <<n, p - 1>>
                  ELSE IF timespan > 132 /\ n > ParamsN THEN <<n - 1, p>>
                  ELSE <<n, p>>
             b == IF a[2] <= ParamsP /\ a[1] > ParamsN /\ timespan > 360
                  THEN <<a[1] - 1, a[2]>> ELSE a
         IN  calcnpClamp(b[1], b[2])
    ELSE LET a == IF timespan < 102 THEN <<n + 1, p>>
                  ELSE IF timespan > 138
                       THEN (IF n > ParamsN THEN <<n - 1, p>> ELSE <<n, p>>)
                  ELSE <<n, p>>
             b == IF a[1] <= ParamsN /\ a[2] > ParamsP /\ timespan > 360
                  THEN <<a[1], a[2] - 1>> ELSE a
         IN  calcnpClamp(b[1], b[2])

\* Variant of calcnp: the branch for p >= 256 is entered only above 256, so
\* at p = 256 a fast block still asks for p + 1.
calcnpCapLate(timespan, n, p) ==
    IF p < 257
    THEN LET a == IF timespan < 102 THEN <<n, p + 1>>
                  ELSE IF timespan < 108 THEN <<n + 1, p>>
                  ELSE IF timespan > 138
                       THEN (IF p > ParamsP THEN <<n, p - 1>> ELSE <<n, p>>)
                  ELSE IF timespan > 132
                       THEN (IF n > ParamsN THEN <<n - 1, p>> ELSE <<n, p>>)
                  ELSE <<n, p>>
             b == IF a[2] <= ParamsP /\ a[1] > ParamsN /\ timespan > 360
                  THEN <<a[1] - 1, a[2]>> ELSE a
         IN  calcnpClamp(b[1], b[2])
    ELSE LET a == IF timespan < 102 THEN <<n + 1, p>>
                  ELSE IF timespan > 138
                       THEN (IF n > ParamsN THEN <<n - 1, p>> ELSE <<n, p>>)
                  ELSE <<n, p>>
             b == IF a[1] <= ParamsN /\ a[2] > ParamsP /\ timespan > 360
                  THEN <<a[1], a[2] - 1>> ELSE a
         IN  calcnpClamp(b[1], b[2])

\* Variant of calcnp for p < 256: the closing clause that lowers n asks for
\* a timespan above 100 instead of above 360.
calcnpTailEarly(timespan, n, p) ==
    IF p < 256
    THEN LET a == IF timespan < 102 THEN <<n, p + 1>>
                  ELSE IF timespan < 108 THEN <<n + 1, p>>
                  ELSE IF timespan > 138
                       THEN (IF p > ParamsP THEN <<n, p - 1>> ELSE <<n, p>>)
                  ELSE IF timespan > 132
                       THEN (IF n > ParamsN THEN <<n - 1, p>> ELSE <<n, p>>)
                  ELSE <<n, p>>
             b == IF a[2] <= ParamsP /\ a[1] > ParamsN /\ timespan > 100
                  THEN <<a[1] - 1, a[2]>> ELSE a
         IN  calcnpClamp(b[1], b[2])
    ELSE LET a == IF timespan < 102 THEN <<n + 1, p>>
                  ELSE IF timespan > 138
                       THEN (IF n > ParamsN THEN <<n - 1, p>> ELSE <<n, p>>)
                  ELSE <<n, p>>
             b == IF a[1] <= ParamsN /\ a[2] > ParamsP /\ timespan > 360
                  THEN <<a[1], a[2] - 1>> ELSE a
         IN  calcnpClamp(b[1], b[2])

\* calcnp: the pre-Sea adjustment of (n, p) by the 12-block timespan.
calcnp(timespan, n, p) ==
    IF p < 256
    THEN LET a == IF timespan < 102 THEN <<n, p + 1>>
                  ELSE IF timespan < 108 THEN <<n + 1, p>>
                  ELSE IF timespan > 138
                       THEN (IF p > ParamsP THEN <<n, p - 1>> ELSE <<n, p>>)
                  ELSE IF timespan > 132
                       THEN (IF n > ParamsN THEN <<n - 1, p>> ELSE <<n, p>>)
                  ELSE <<n, p>>
             b == IF a[2] <= ParamsP /\ a[1] > ParamsN /\ timespan > 360
                  THEN <<a[1] - 1, a[2]>> ELSE a
         IN  calcnpClamp(b[1], b[2])
    ELSE LET a == IF timespan < 102 THEN <<n + 1, p>>
                  ELSE IF timespan > 138
                       THEN (IF n > ParamsN THEN <<n - 1, p>> ELSE <<n, p>>)
                  ELSE <<n, p>>
             b == IF a[1] <= ParamsN /\ a[2] > ParamsP /\ timespan > 360
                  THEN <<a[1], a[2] - 1>> ELSE a
         IN  calcnpClamp(b[1], b[2])

\* calcnpsea with the slow branches above 600 seconds lowering p by one when
\* only p is above its floor.
calcnpseaSlowP(timespan, n, p) ==
    IF p < 256
    THEN LET a == IF timespan < 5 THEN <<n, p + 1>>
                  ELSE IF timespan < 7 THEN <<n + 1, p>>
                  ELSE IF timespan > 900
                       THEN (IF p > ParamsP /\ n > ParamsN
                             THEN <<n - (n \div 7), p - (p \div 7)>>
                             ELSE IF p > ParamsP THEN <<n, p - 1>> ELSE <<n, p>>)
                  ELSE IF timespan > 600
                       THEN (IF p > ParamsP /\ n > ParamsN
                             THEN <<n - (n \div 10), p - (p \div 10)>>
                             ELSE IF p > ParamsP THEN <<n, p - 1>> ELSE <<n, p>>)
                  ELSE IF timespan > 16
                       THEN (IF p > ParamsP THEN <<n, p - 1>> ELSE <<n, p>>)
                  ELSE IF timespan > 13
                       THEN (IF n > ParamsN THEN <<n - 1, p>> ELSE <<n, p>>)
                  ELSE <<n, p>>
             b == IF a[2] <= ParamsP /\ a[1] > ParamsN /\ timespan > 30
                  THEN <<a[1] - 1, a[2]>> ELSE a
         IN  calcnpClamp(b[1], b[2])
    ELSE LET a == IF timespan < 5 THEN <<n + 1, p>>
                  ELSE IF timespan > 16
                       THEN (IF n > ParamsN THEN <<n - 1, p>> ELSE <<n, p>>)
                  ELSE <<n, p>>
             b == IF a[1] <= ParamsN /\ a[2] > ParamsP /\ timespan > 30
                  THEN <<a[1], a[2] - 1>> ELSE a
         IN  calcnpClamp(b[1], b[2])

\* calcnpsea: the Sea adjustment of (n, p) by the one-block timespan.
calcnpsea(timespan, n, p) ==
    IF p < 256
    THEN LET a == IF timespan < 5 THEN <<n, p + 1>>
                  ELSE IF timespan < 7 THEN <<n + 1, p>>
                  ELSE IF timespan > 900
                       THEN (IF p > ParamsP /\ n > ParamsN
                             THEN <<n - (n \div 7), p - (p \div 7)>> ELSE <<n, p>>)
                  ELSE IF timespan > 600
                       THEN (IF p > ParamsP /\ n > ParamsN
                             THEN <<n - (n \div 10), p - (p \div 10)>> ELSE <<n, p>>)
                  ELSE IF timespan > 16
                       THEN (IF p > ParamsP THEN <<n, p - 1>> ELSE <<n, p>>)
                  ELSE IF timespan > 13
                       THEN (IF n > ParamsN THEN <<n - 1, p>> ELSE <<n, p>>)
                  ELSE <<n, p>>
             b == IF a[2] <= ParamsP /\ a[1] > ParamsN /\ timespan > 30
                  THEN <<a[1] - 1, a[2]>> ELSE a
         IN  calcnpClamp(b[1], b[2])
    ELSE LET a == IF timespan < 5 THEN <<n + 1, p>>
                  ELSE IF timespan > 16
                       THEN (IF n > ParamsN THEN <<n - 1, p>> ELSE <<n, p>>)
                  ELSE <<n, p>>
             b == IF a[1] <= ParamsN /\ a[2] > ParamsP /\ timespan > 30
                  THEN <<a[1], a[2] - 1>> ELSE a
         IN  calcnpClamp(b[1], b[2])

\* n*n*n*p*p*p*p*p*p in uint64 arithmetic (left to right, wrapping).
npProduct(n, p) ==
    LET bn == BigFromNat(n)
        bp == BigFromNat(p)
        n2 == U64Mul(bn, bn)
        n3 == U64Mul(n2, bn)
        m1 == U64Mul(n3, bp)
        m2 == U64Mul(m1, bp)
        m3 == U64Mul(m2, bp)
        m4 == U64Mul(m3, bp)
        m5 == U64Mul(m4, bp)
    IN  U64Mul(m5, bp)

\* Variant of CalcDifficultyByLake: block 13 still gets the initial values,
\* the adjustment starts at block 14.
CalcDifficultyByLakeLate(header, parent, parent12) ==
    LET base == IF header.Number < 1 THEN <<>> ELSE parent.NP
    IN  IF header.Number <= 13
        THEN <<ParamsN, ParamsP, 120, BigAdd(base, npProduct(ParamsN, ParamsP))>>
        ELSE LET timespan == IF header.Time < parent12.Time THEN 120
                             ELSE header.Time - parent12.Time
                 np == calcnp(timespan, parent.N, parent.P)
             IN  <<np[1], np[2], timespan, BigAdd(base, npProduct(np[1], np[2]))>>

\* CalcDifficultyByLake (and CalcDifficultyBygen, which only forwards to it):
\* <<n, p, alpha, NP>> of the pre-Sea regime.
CalcDifficultyByLake(header, parent, parent12) ==
    LET base == IF header.Number < 1 THEN <<>> ELSE parent.NP
    IN  IF header.Number <= 12
        THEN <<ParamsN, ParamsP, 120, BigAdd(base, npProduct(ParamsN, ParamsP))>>
        ELSE LET timespan == IF header.Time < parent12.Time THEN 120
                             ELSE header.Time - parent12.Time
                 np == calcnp(timespan, parent.N, parent.P)
             IN  <<np[1], np[2], timespan, BigAdd(base, npProduct(np[1], np[2]))>>

\* VerifyDifficultyBygen: the pre-Sea (n, p) recomputed from the header itself.
VerifyDifficultyBygen(header) == calcnp(header.Alpha, header.NN, header.PP)

\* CalcDifficultyBySea: <<n, p, alpha, NP>> of the Sea regime.
CalcDifficultyBySea(header, parent) ==
    LET t0 == IF header.Number = 1 THEN 10 ELSE header.Time - parent.Time
        timespan == IF header.Time < parent.Time THEN 10 ELSE t0
        np == calcnpsea(timespan, parent.N, parent.P)
        curNP == U64Sub(npProduct(np[1], np[2]), BigFromNat(timespan))
        base == IF header.Number < 1 THEN <<>> ELSE parent.NP
    IN  <<np[1], np[2], timespan, BigAdd(base, curNP)>>

\* VerifyDifficultyBySea: the Sea (n, p) recomputed from the header itself.
VerifyDifficultyBySea(header) == calcnpsea(header.Alpha, header.NN, header.PP)

\* The ice-age term shared by the three scalar rules: 2^(periodCount - 2)
\* when periodCount > 1, else nothing.
expDiffTerm(periodCount) ==
    IF periodCount > 1 THEN Pow2(periodCount - 2) ELSE 0

difficultyFloor(d) == IF d < MinimumDifficulty THEN MinimumDifficulty ELSE d

\* calcDifficultyByzantium
calcDifficultyByzantium(time, parent) ==
    LET q == (time - parent.Time) \div 9
        x0 == IF parent.UncleHash = "EmptyUncleHash" THEN 1 - q ELSE 2 - q
        x1 == IF x0 < -99 THEN -99 ELSE x0
        y == parent.Difficulty \div DifficultyBoundDivisor
        x2 == difficultyFloor(parent.Difficulty + y * x1)
        fakeBlockNumber == IF parent.Number >= big2999999
                           THEN parent.Number - big2999999 ELSE 0
    IN  x2 + expDiffTerm(fakeBlockNumber \div expDiffPeriod)

\* calcDifficultyHomestead
calcDifficultyHomestead(time, parent) ==
    LET x0 == 1 - ((time - parent.Time) \div 10)
        x1 == IF x0 < -99 THEN -99 ELSE x0
        y == parent.Difficulty \div DifficultyBoundDivisor
        x2 == difficultyFloor(parent.Difficulty + y * x1)
    IN  x2 + expDiffTerm((parent.Number + 1) \div expDiffPeriod)

\* calcDifficultyFrontier
calcDifficultyFrontier(time, parent) ==
    LET adjust == parent.Difficulty \div DifficultyBoundDivisor
        d0 == IF time - parent.Time < DurationLimit
              THEN parent.Difficulty + adjust ELSE parent.Difficulty - adjust
        d1 == difficultyFloor(d0)
        periodCount == (parent.Number + 1) \div expDiffPeriod
    IN  IF periodCount > 1
        THEN difficultyFloor(d1 + Pow2(periodCount - 2))
        ELSE d1

\* Variant of CalcDifficulty: the Homestead rule is tried before the
\* Byzantium rule.
CalcDifficultyHomesteadFirst(config, time, parent) ==
    LET next == parent.Number + 1
    IN  IF IsHomestead(config, next) THEN calcDifficultyHomestead(time, parent)
        ELSE IF IsByzantium(config, next) THEN calcDifficultyByzantium(time, parent)
        ELSE calcDifficultyFrontier(time, parent)

\* CalcDifficulty: the scalar difficulty of the block after parent at time.
CalcDifficulty(config, time, parent) ==
    LET next == parent.Number + 1
    IN  IF IsByzantium(config, next) THEN calcDifficultyByzantium(time, parent)
        ELSE IF IsHomestead(config, next) THEN calcDifficultyHomestead(time, parent)
        ELSE calcDifficultyFrontier(time, parent)


\* Variant of VerifySeal: (N, P) is compared before the hashes.
VerifySealPoWFirst(eng, config, header) ==
    IF eng.PowMode = ModeFake \/ eng.PowMode = ModeFullFake
    THEN (IF eng.fakeFail = header.Number THEN errInvalidPoW ELSE Nil)
    ELSE IF header.Difficulty <= 0 THEN errInvalidDifficulty
    ELSE LET np == IF IsSeafork(config, header.Number)
                   THEN VerifyDifficultyBySea(header)
                   ELSE VerifyDifficultyBygen(header)
         IN  IF header.N # np[1] \/ header.P # np[2] THEN errInvalidPoW
             ELSE IF ~header.FuzzyOK THEN errInvalidMixDigest
             ELSE IF ~header.TargetOK THEN errInvalidMixDigest
             ELSE Nil

(***************************************************************************)
(* Seal and header verification.                                           *)
(***************************************************************************)
\* VerifySeal.  genHash and compareDiff are fixed external functions of the
\* header's content: header.FuzzyOK says that header.FuzzyHash is the fhash
\* genHash returns for it, header.TargetOK that the hash256 it returns meets
\* the target for header.P.
VerifySeal(eng, config, header) ==
    IF eng.PowMode = ModeFake \/ eng.PowMode = ModeFullFake
    THEN (IF eng.fakeFail = header.Number THEN errInvalidPoW ELSE Nil)
    ELSE IF header.Difficulty <= 0 THEN errInvalidDifficulty
    ELSE IF ~header.FuzzyOK THEN errInvalidMixDigest
    ELSE IF ~header.TargetOK THEN errInvalidMixDigest
    ELSE LET np == IF IsSeafork(config, header.Number)
                   THEN VerifyDifficultyBySea(header)
                   ELSE VerifyDifficultyBygen(header)
         IN  IF header.N # np[1] \/ header.P # np[2] THEN errInvalidPoW ELSE Nil

\* Variant of verifyGas: the gas used is not compared with the gas limit.
verifyGasUsedUnchecked(header, parent) ==
    IF BigCmp(header.GasLimit, GasCap) > 0 THEN errGasLimitCap
    ELSE LET d == U64Sub(parent.GasLimit, header.GasLimit)
             diff == IF BigCmp(d, GasCap) > 0 THEN U64Sub(<<>>, d) ELSE d
             limit == BigDivSmall(parent.GasLimit, GasLimitBoundDivisor)
         IN  IF BigCmp(diff, limit) >= 0
                \/ BigCmp(header.GasLimit, BigFromNat(MinGasLimit)) < 0
             THEN errGasLimitBounds
             ELSE Nil

\* The gas checks of verifyHeader, in the order of the code.  The gas limits
\* are uint64; their difference is taken in int64 (d is its two's complement
\* bit pattern), negated when negative and converted back to uint64.
verifyGas(header, parent) ==
    IF BigCmp(header.GasLimit, GasCap) > 0 THEN errGasLimitCap
    ELSE IF BigCmp(header.GasUsed, header.GasLimit) > 0 THEN errGasUsed
    ELSE LET d == U64Sub(parent.GasLimit, header.GasLimit)
             diff == IF BigCmp(d, GasCap) > 0 THEN U64Sub(<<>>, d) ELSE d
             limit == BigDivSmall(parent.GasLimit, GasLimitBoundDivisor)
         IN  IF BigCmp(diff, limit) >= 0
                \/ BigCmp(header.GasLimit, BigFromNat(MinGasLimit)) < 0
             THEN errGasLimitBounds
             ELSE Nil

\* Variant of verifyHeader: the gas checks come before the difficulty check.
verifyHeaderGasFirst(eng, config, now, header, parent, uncle, seal) ==
    IF header.ExtraLen > MaximumExtraDataSize THEN errExtraTooLong
    ELSE IF uncle /\ BigCmp(BigFromNat(header.Time), MaxBig256) > 0
    THEN errLargeBlockTime
    ELSE IF ~uncle /\ header.Time > now + allowedFutureBlockTime
    THEN ErrFutureBlock
    ELSE IF header.Time <= parent.Time THEN errZeroBlockTime
    ELSE IF verifyGas(header, parent) # Nil THEN verifyGas(header, parent)
    ELSE IF CalcDifficulty(config, header.Time, parent) # header.Difficulty
    THEN errDifficultyMismatch
    ELSE IF header.Number - parent.Number # 1 THEN ErrInvalidNumber
    ELSE IF seal /\ VerifySeal(eng, config, header) # Nil
    THEN VerifySeal(eng, config, header)
    ELSE IF ~header.DAOExtraOK THEN ErrBadDAOExtra
    ELSE IF ~header.ForkHashOK THEN ErrBadForkHash
    ELSE Nil

\* verifyHeader: the header checked against its parent; now is the wall clock
\* (time.Now().Unix()).  misc.VerifyDAOHeaderExtraData and
\* misc.VerifyForkHashes are opaque validators of the header's content:
\* header.DAOExtraOK and header.ForkHashOK are their verdicts.
verifyHeader(eng, config, now, header, parent, uncle, seal) ==
    IF header.ExtraLen > MaximumExtraDataSize THEN errExtraTooLong
    ELSE IF uncle /\ BigCmp(BigFromNat(header.Time), MaxBig256) > 0
    THEN errLargeBlockTime
    ELSE IF ~uncle /\ header.Time > now + allowedFutureBlockTime
    THEN ErrFutureBlock
    ELSE IF header.Time <= parent.Time THEN errZeroBlockTime
    ELSE IF CalcDifficulty(config, header.Time, parent) # header.Difficulty
    THEN errDifficultyMismatch
    ELSE IF verifyGas(header, parent) # Nil THEN verifyGas(header, parent)
    ELSE IF header.Number - parent.Number # 1 THEN ErrInvalidNumber
    ELSE IF seal /\ VerifySeal(eng, config, header) # Nil
    THEN VerifySeal(eng, config, header)
    ELSE IF ~header.DAOExtraOK THEN ErrBadDAOExtra
    ELSE IF ~header.ForkHashOK THEN ErrBadForkHash
    ELSE Nil

\* Variant of VerifyHeader: the parent is looked up before the header.
VerifyHeaderParentFirst(eng, config, now, chain, header, seal) ==
    IF eng.PowMode = ModeFullFake THEN Nil
    ELSE IF GetHeader(chain, header.ParentHash, header.Number - 1) = NoHeader
    THEN ErrUnknownAncestor
    ELSE IF GetHeader(chain, Hash(header), header.Number) # NoHeader THEN Nil
    ELSE verifyHeader(eng, config, now, header,
                      GetHeader(chain, header.ParentHash, header.Number - 1),
                      FALSE, seal)

\* Variant of VerifyHeader: ModeFullFake is not looked at.
VerifyHeaderFakeIgnored(eng, config, now, chain, header, seal) ==
    IF GetHeader(chain, Hash(header), header.Number) # NoHeader THEN Nil
    ELSE LET parent == GetHeader(chain, header.ParentHash, header.Number - 1)
         IN  IF parent = NoHeader THEN ErrUnknownAncestor
             ELSE verifyHeader(eng, config, now, header, parent, FALSE, seal)

\* VerifyHeader
VerifyHeader(eng, config, now, chain, header, seal) ==
    IF eng.PowMode = ModeFullFake THEN Nil
    ELSE IF GetHeader(chain, Hash(header), header.Number) # NoHeader THEN Nil
    ELSE LET parent == GetHeader(chain, header.ParentHash, header.Number - 1)
         IN  IF parent = NoHeader THEN ErrUnknownAncestor
             ELSE verifyHeader(eng, config, now, header, parent, FALSE, seal)

\* Variant of workerParent: the parent of every batch element is looked up
\* in the chain, as VerifyHeader does.
workerParentFromChain(chain, headers, k) ==
    GetHeader(chain, headers[k].ParentHash, headers[k].Number - 1)

\* The parent verifyHeaderWorker resolves for headers[index]: the chain's
\* header for index 0 (0-based), else the preceding batch element when its
\* hash is the header's ParentHash, else nil.  Batch positions are 1-based
\* here: position k holds the code's headers[k - 1].
workerParent(chain, headers, k) ==
    IF k = 1
    THEN GetHeader(chain, headers[1].ParentHash, headers[1].Number - 1)
    ELSE IF Hash(headers[k - 1]) = headers[k].ParentHash THEN headers[k - 1]
    ELSE NoHeader

\* Variant of verifyHeaderWorker: the seal is checked whatever seals[index]
\* says.
verifyHeaderWorkerAlwaysSeal(eng, config, now, chain, headers, seals, k) ==
    LET par == workerParent(chain, headers, k)
    IN  IF par = NoHeader THEN ErrUnknownAncestor
        ELSE IF GetHeader(chain, Hash(headers[k]), headers[k].Number) # NoHeader
        THEN Nil
        ELSE verifyHeader(eng, config, now, headers[k], par, FALSE, TRUE)

\* verifyHeaderWorker
verifyHeaderWorker(eng, config, now, chain, headers, seals, k) ==
    LET par == workerParent(chain, headers, k)
    IN  IF par = NoHeader THEN ErrUnknownAncestor
        ELSE IF GetHeader(chain, Hash(headers[k]), headers[k].Number) # NoHeader
        THEN Nil
        ELSE verifyHeader(eng, config, now, headers[k], par, FALSE, seals[k])

\* Variant of Prepare: a header that carries its parent's time is stamped too.
PrepareEqualTime(config, chain, header) ==
    LET par == GetHeader(chain, header.ParentHash, header.Number - 1)
    IN  IF par = NoHeader THEN <<ErrUnknownAncestor, header>>
        ELSE IF par.Time > header.Time THEN <<ErrUnknownAncestor, header>>
        ELSE LET r == IF IsSeafork(config, par.Number + 1)
                      THEN CalcDifficultyBySea(header, par)
                      ELSE CalcDifficultyByLake(header, par,
                               IF header.Number >= 13
                               THEN GetHeaderByNumber(chain, header.Number - 12)
                               ELSE NoHeader)
             IN  <<Nil, [header EXCEPT !.N = r[1], !.NN = par.N,
                                       !.P = r[2], !.PP = par.P,
                                       !.Alpha = r[3], !.NP = r[4],
                                       !.Difficulty =
                                           CalcDifficulty(config, header.Time, par)]>>

\* Variant of Prepare: the header is stamped before its time is compared
\* with its parent's.
PrepareStampsFirst(config, chain, header) ==
    LET par == GetHeader(chain, header.ParentHash, header.Number - 1)
    IN  IF par = NoHeader THEN <<ErrUnknownAncestor, header>>
        ELSE LET r == IF IsSeafork(config, par.Number + 1)
                      THEN CalcDifficultyBySea(header, par)
                      ELSE CalcDifficultyByLake(header, par,
                               IF header.Number >= 13
                               THEN GetHeaderByNumber(chain, header.Number - 12)
                               ELSE NoHeader)
             IN  <<IF par.Time >= header.Time THEN ErrUnknownAncestor ELSE Nil,
                   [header EXCEPT !.N = r[1], !.NN = par.N,
                                  !.P = r[2], !.PP = par.P,
                                  !.Alpha = r[3], !.NP = r[4],
                                  !.Difficulty =
                                      CalcDifficulty(config, header.Time, par)]>>

\* Variant of Prepare: the header's time is not compared with its parent's.
PrepareAnyTime(config, chain, header) ==
    LET par == GetHeader(chain, header.ParentHash, header.Number - 1)
    IN  IF par = NoHeader THEN <<ErrUnknownAncestor, header>>
        ELSE LET r == IF IsSeafork(config, par.Number + 1)
                      THEN CalcDifficultyBySea(header, par)
                      ELSE CalcDifficultyByLake(header, par,
                               IF header.Number >= 13
                               THEN GetHeaderByNumber(chain, header.Number - 12)
                               ELSE NoHeader)
             IN  <<Nil, [header EXCEPT !.N = r[1], !.NN = par.N,
                                       !.P = r[2], !.PP = par.P,
                                       !.Alpha = r[3], !.NP = r[4],
                                       !.Difficulty =
                                           CalcDifficulty(config, header.Time, par)]>>

\* Prepare: <<error, header after the call>>.
Prepare(config, chain, header) ==
    LET par == GetHeader(chain, header.ParentHash, header.Number - 1)
    IN  IF par = NoHeader THEN <<ErrUnknownAncestor, header>>
        ELSE IF par.Time >= header.Time THEN <<ErrUnknownAncestor, header>>
        ELSE LET r == IF IsSeafork(config, par.Number + 1)
                      THEN CalcDifficultyBySea(header, par)
                      ELSE CalcDifficultyByLake(header, par,
                               IF header.Number >= 13
                               THEN GetHeaderByNumber(chain, header.Number - 12)
                               ELSE NoHeader)
             IN  <<Nil, [header EXCEPT !.N = r[1], !.NN = par.N,
                                       !.P = r[2], !.PP = par.P,
                                       !.Alpha = r[3], !.NP = r[4],
                                       !.Difficulty =
                                           CalcDifficulty(config, header.Time, par)]>>


(***************************************************************************)
(* VerifyUncles.  A block is its header and the list of its uncles; the    *)
(* chain holds, next to its headers, the uncle list of every block.        *)
(***************************************************************************)
\* The absent block (a nil *types.Block).
NoBlock == [absent |-> TRUE]

\* chain.GetBlock(hash, number): the block stored under that hash and number.
GetBlock(chain, cuncles, hash, number) ==
    IF \E i \in 1..Len(chain) : Hash(chain[i]) = hash /\ chain[i].Number = number
    THEN LET i == CHOOSE i \in 1..Len(chain) :
                      Hash(chain[i]) = hash /\ chain[i].Number = number
         IN  [header |-> chain[i], uncles |-> cuncles[i]]
    ELSE NoBlock

\* The loop of VerifyUncles that gathers the ancestors: the blocks found
\* from (parent, number) upwards in rounds i..6, nearest first; the loop
\* stops at the first block the chain does not hold.
RECURSIVE GatherAncestors(_, _, _, _, _)
GatherAncestors(chain, cuncles, parent, number, i) ==
    IF i >= 7 \/ GetBlock(chain, cuncles, parent, number) = NoBlock THEN <<>>
    ELSE <<GetBlock(chain, cuncles, parent, number)>>
         \o GatherAncestors(chain, cuncles,
                GetBlock(chain, cuncles, parent, number).header.ParentHash,
                number - 1, i + 1)

\* Variant of CheckUncles: a checked uncle is not added to the seen set.
RECURSIVE CheckUnclesNotAdded(_, _, _, _, _, _, _)
CheckUnclesNotAdded(eng, config, now, ancestors, block, k, seen) ==
    IF k > Len(block.uncles) THEN Nil
    ELSE LET uncle == block.uncles[k]
             hash == Hash(uncle)
         IN  IF hash \in seen THEN errDuplicateUncle
             ELSE IF \E a \in ancestors : Hash(a) = hash THEN errUncleIsAncestor
             ELSE IF \/ ~\E a \in ancestors : Hash(a) = uncle.ParentHash
                     \/ uncle.ParentHash = block.header.ParentHash
             THEN errDanglingUncle
             ELSE LET par == CHOOSE a \in ancestors : Hash(a) = uncle.ParentHash
                      err == verifyHeader(eng, config, now, uncle, par, TRUE, TRUE)
                  IN  IF err # Nil THEN err
                      ELSE CheckUnclesNotAdded(eng, config, now, ancestors,
                                               block, k + 1, seen)

\* Variant of CheckUncles: the seal of an uncle is not checked.
RECURSIVE CheckUnclesUnsealed(_, _, _, _, _, _, _)
CheckUnclesUnsealed(eng, config, now, ancestors, block, k, seen) ==
    IF k > Len(block.uncles) THEN Nil
    ELSE LET uncle == block.uncles[k]
             hash == Hash(uncle)
         IN  IF hash \in seen THEN errDuplicateUncle
             ELSE IF \E a \in ancestors : Hash(a) = hash THEN errUncleIsAncestor
             ELSE IF \/ ~\E a \in ancestors : Hash(a) = uncle.ParentHash
                     \/ uncle.ParentHash = block.header.ParentHash
             THEN errDanglingUncle
             ELSE LET par == CHOOSE a \in ancestors : Hash(a) = uncle.ParentHash
                      err == verifyHeader(eng, config, now, uncle, par, TRUE, FALSE)
                  IN  IF err # Nil THEN err
                      ELSE CheckUnclesUnsealed(eng, config, now, ancestors,
                                               block, k + 1, seen \cup {hash})

\* The loop of VerifyUncles over the uncles of the block, from the k-th:
\* ancestors are the headers of the ancestors map (keyed by their hash),
\* seen the hashes of the uncles set.
RECURSIVE CheckUncles(_, _, _, _, _, _, _)
CheckUncles(eng, config, now, ancestors, block, k, seen) ==
    IF k > Len(block.uncles) THEN Nil
    ELSE LET uncle == block.uncles[k]
             hash == Hash(uncle)
         IN  IF hash \in seen THEN errDuplicateUncle
             ELSE IF \E a \in ancestors : Hash(a) = hash THEN errUncleIsAncestor
             ELSE IF \/ ~\E a \in ancestors : Hash(a) = uncle.ParentHash
                     \/ uncle.ParentHash = block.header.ParentHash
             THEN errDanglingUncle
             ELSE LET par == CHOOSE a \in ancestors : Hash(a) = uncle.ParentHash
                      err == verifyHeader(eng, config, now, uncle, par, TRUE, TRUE)
                  IN  IF err # Nil THEN err
                      ELSE CheckUncles(eng, config, now, ancestors, block,
                                       k + 1, seen \cup {hash})

\* Variant of VerifyUncles: the uncles are counted after they were checked.
VerifyUnclesCountedLast(eng, config, now, chain, cuncles, block) ==
    IF eng.PowMode = ModeFullFake THEN Nil
    ELSE LET anc == GatherAncestors(chain, cuncles, block.header.ParentHash,
                                    block.header.Number - 1, 0)
             ancestors == {anc[i].header : i \in 1..Len(anc)} \cup {block.header}
             uncles == UNION {{Hash(anc[i].uncles[j]) :
                                   j \in 1..Len(anc[i].uncles)} :
                              i \in 1..Len(anc)}
             err == CheckUncles(eng, config, now, ancestors, block, 1,
                                uncles \cup {Hash(block.header)})
         IN  IF err # Nil THEN err
             ELSE IF Len(block.uncles) > maxUncles THEN errTooManyUncles
             ELSE Nil

\* VerifyUncles
VerifyUncles(eng, config, now, chain, cuncles, block) ==
    IF eng.PowMode = ModeFullFake THEN Nil
    ELSE IF Len(block.uncles) > maxUncles THEN errTooManyUncles
    ELSE LET anc == GatherAncestors(chain, cuncles, block.header.ParentHash,
                                    block.header.Number - 1, 0)
             ancestors == {anc[i].header : i \in 1..Len(anc)} \cup {block.header}
             uncles == UNION {{Hash(anc[i].uncles[j]) :
                                   j \in 1..Len(anc[i].uncles)} :
                              i \in 1..Len(anc)}
         IN  CheckUncles(eng, config, now, ancestors, block, 1,
                         uncles \cup {Hash(block.header)})

(***************************************************************************)
(* Input states: a genesis header, the headers an honest miner builds on a *)
(* chain, and the batches handed to VerifyHeaders.                         *)
(***************************************************************************)
\* Number of headers of a batch, and runtime.GOMAXPROCS(0).
NumHeaders == 3
GOMAXPROCS == 2
\* The wall clock (time.Now().Unix()) of the verifying node.
NowUnix == 1000

Genesis ==
    [Number |-> 0, ParentHash |-> ZeroHash, Time |-> 0,
     Difficulty |-> MinimumDifficulty,
     GasLimit |-> BigFromNat(8 * GasLimitBoundDivisor), GasUsed |-> <<>>,
     ExtraLen |-> 0, UncleHash |-> "EmptyUncleHash", Coinbase |-> "miner",
     N |-> ParamsN, P |-> ParamsP, NN |-> ParamsN, PP |-> ParamsP,
     Alpha |-> 120, NP |-> <<>>, Rewards |-> <<>>,
     FuzzyOK |-> TRUE, TargetOK |-> TRUE, DAOExtraOK |-> TRUE, ForkHashOK |-> TRUE]

\* The header a miner starts from on tip, dt seconds after it: the fields
\* Prepare does not write, with the cumulative rewards carried from the tip.
Template(tip, dt) ==
    [Genesis EXCEPT !.Number = tip.Number + 1, !.ParentHash = Hash(tip),
                    !.Time = tip.Time + dt, !.GasLimit = tip.GasLimit,
                    !.Rewards = tip.Rewards]

\* The header an honest miner produces on the tip of chain.
Mined(config, chain, dt) ==
    Prepare(config, chain, Template(chain[Len(chain)], dt))[2]

\* Chain configurations: no fork configured, and Homestead from genesis with
\* Byzantium and the Sea fork at block 2.
FrontierConfig ==
    [HomesteadBlock |-> NoFork, ByzantiumBlock |-> NoFork, SeaForkBlock |-> NoFork]
SeaConfig ==
    [HomesteadBlock |-> 0, ByzantiumBlock |-> 2, SeaForkBlock |-> 2]
Configs == {FrontierConfig, SeaConfig}

NormalEngine == [PowMode |-> ModeNormal, fakeFail |-> 0]


\* The chain of the verifying node when a batch arrives: genesis and one
\* honestly mined block.
BaseChain(config) == <<Genesis, Mined(config, <<Genesis>>, 10)>>

(***************************************************************************)
(* State.                                                                  *)
(***************************************************************************)
VARIABLES
    engine,        \* the Ethash engine: its PowMode and fakeFail
    config,        \* the chain configuration (fork heights)
    now,           \* the wall clock of the verifying node
    chain,         \* the canonical headers of the verifying node
    \* --- the batch handed to VerifyHeaders and its sender -----------------
    built,         \* the sender's own chain, the batch's headers mined on it
    headers,       \* the batch
    seals,         \* the seal flags of the batch
    deviated,      \* the batch already holds an element that is not honest
    bpc,           \* "build": the batch is being received, "run": VerifyHeaders was called
    \* --- VerifyHeaders: the goroutines and what they share ----------------
    wpc,           \* per worker: "recv" (range inputs), "verify", "send" (done <- index), "exit"
    windex,        \* per worker: the index it received (0-based as in the code)
    inputsClosed,  \* close(inputs) ran
    inputsNil,     \* the coordinator's copy of inputs is nil
    done,          \* the done channel's buffer
    errors,        \* the errors slice ("unset": not written yet)
    checked,       \* the coordinator's checked slice
    in,            \* the coordinator's in
    out,           \* the coordinator's out
    cpc,           \* coordinator: "select", "emit" (the for loop after <-done), "finished", "aborted"
    errorsOut,     \* the results channel's buffer
    abort,         \* the caller signalled abort
    \* --- a single header offered to Prepare and VerifyHeader --------------
    hdr,           \* the header
    hpc,           \* "idle", "received", "prepared", "unprepared", "verified"
    perr,          \* what Prepare returned for hdr ("unset": not called)
    hdr0,          \* hdr as it was before Prepare
    verr,          \* the verdict of VerifyHeader
    vseal,         \* the seal flag VerifyHeader was called with
    \* --- Finalize ---------------------------------------------------------
    fheader,       \* the header being built: its Number, Coinbase and cumulative Rewards
    fstate,        \* the state database: the balance of every account
    fpc,           \* "open": the header awaits Finalize, "finalized"
    fpre,          \* fheader and fstate as they were when Finalize was called
    funcles,       \* the number of uncles of the block
    paid,          \* everything credited by Finalize along the chain so far
    fcount,        \* the number of blocks finalized since the start
    \* --- calls of the engine's functions ---------------------------------
    call,          \* the last call made: its function, arguments and result
    \* --- VerifyUncles -----------------------------------------------------
    cuncles,       \* the uncle list of every block of the chain
    ublock,        \* the block handed to VerifyUncles: its header and uncles
    uerr,          \* the verdict of VerifyUncles
    upc,           \* "idle", "proposed", "verified"
    ucount         \* the number of blocks proposed since the start

envVars == <<engine, config, now, chain>>
batchVars == <<built, headers, seals, deviated, bpc>>
pipeVars == <<wpc, windex, inputsClosed, inputsNil, done, errors, checked,
              in, out, cpc, errorsOut, abort>>
hdrVars == <<hdr, hpc, perr, hdr0, verr, vseal>>
rewardVars == <<fheader, fstate, fpc, fpre, funcles, paid, fcount>>
uncleVars == <<cuncles, ublock, uerr, upc, ucount>>

\* The value of an error slot or verdict that was never written.
Unset == "unset"

\* No function was called yet.
NoCall == [fn |-> "none"]

InitPipe ==
    /\ wpc = <<>> /\ windex = <<>> /\ inputsClosed = FALSE /\ inputsNil = FALSE
    /\ done = <<>> /\ errors = <<>> /\ checked = <<>> /\ in = 0 /\ out = 0
    /\ cpc = "none" /\ errorsOut = <<>> /\ abort = FALSE

InitBatchVars ==
    /\ built = <<>> /\ headers = <<>> /\ seals = <<>> /\ deviated = FALSE
    /\ bpc = "build"

InitHdr ==
    /\ hdr = NoHeader /\ hpc = "idle" /\ perr = Unset /\ hdr0 = NoHeader
    /\ verr = Unset /\ vseal = FALSE

\* VerifyUncles was not called, and no block of the chain has uncles.
InitNoUncles ==
    /\ cuncles = [k \in 1..Len(chain) |-> <<>>] /\ ublock = NoBlock
    /\ uerr = Unset /\ upc = "idle" /\ ucount = 0

InitNoReward ==
    /\ fheader = NoHeader /\ fstate = <<>> /\ fpc = "none" /\ fpre = NoHeader
    /\ funcles = 0 /\ paid = <<>> /\ fcount = 0

(***************************************************************************)
(* The batch a peer sends: built one header at a time.                     *)
(***************************************************************************)
\* How a batch element can deviate from an honestly mined header.
Flaws == {"gasUsed", "seal"}

\* An honestly mined header made invalid: gasUsed above the gas limit, or a
\* seal whose fuzzy hash is not the one genHash computes.
Flawed(h, flaw) ==
    IF flaw = "gasUsed"
    THEN [h EXCEPT !.GasUsed = BigAdd(h.GasLimit, BigFromNat(1))]
    ELSE [h EXCEPT !.FuzzyOK = FALSE]

\* The sender's chain before it mined anything of the batch.
SenderChain == IF headers = <<>> THEN chain ELSE built

\* The batch starts with a header the chain already has (position j of it);
\* the rest of such a batch is honestly mined.
AppendKnown(j) ==
    /\ bpc = "build" /\ headers = <<>>
    /\ headers' = <<chain[j]>>
    /\ built' = SubSeq(chain, 1, j)
    /\ deviated' = TRUE
    /\ UNCHANGED <<seals, bpc>>
    /\ UNCHANGED <<call, uncleVars, envVars, pipeVars, hdrVars, rewardVars>>

\* The next element is honestly mined on the preceding one (on the chain's
\* tip when it is the first).
AppendMined ==
    /\ bpc = "build" /\ Len(headers) < NumHeaders
    /\ LET h == Mined(config, SenderChain, 10)
       IN  /\ headers' = Append(headers, h)
           /\ built' = Append(SenderChain, h)
    /\ UNCHANGED <<seals, deviated, bpc>>
    /\ UNCHANGED <<call, uncleVars, envVars, pipeVars, hdrVars, rewardVars>>

\* The next element is mined on the preceding one but is invalid; its
\* descendants are built on it all the same.
AppendFlawed(flaw) ==
    /\ bpc = "build" /\ Len(headers) < NumHeaders /\ ~deviated
    /\ LET h == Flawed(Mined(config, SenderChain, 10), flaw)
       IN  /\ headers' = Append(headers, h)
           /\ built' = Append(SenderChain, h)
    /\ deviated' = TRUE
    /\ UNCHANGED <<seals, bpc>>
    /\ UNCHANGED <<call, uncleVars, envVars, pipeVars, hdrVars, rewardVars>>

\* The next element is a valid child of the chain's tip, not of the
\* preceding element.
AppendDetached ==
    /\ bpc = "build" /\ headers # <<>> /\ Len(headers) < NumHeaders /\ ~deviated
    /\ LET h == Mined(config, chain, 20)
       IN  /\ headers' = Append(headers, h)
           /\ built' = Append(chain, h)
    /\ deviated' = TRUE
    /\ UNCHANGED <<seals, bpc>>
    /\ UNCHANGED <<call, uncleVars, envVars, pipeVars, hdrVars, rewardVars>>

(***************************************************************************)
(* VerifyHeaders.                                                          *)
(***************************************************************************)
Min(a, b) == IF a < b THEN a ELSE b

\* The number of worker goroutines.
Workers == Min(GOMAXPROCS, Len(headers))

\* The call: the channels and slices are made, the workers and the
\* coordinator are spawned.  (The ModeFullFake / empty-batch shortcut fills
\* the results with nil and spawns nothing.)
CallVerifyHeaders(s) ==
    /\ bpc = "build" /\ Len(headers) \in {0, NumHeaders}
    /\ bpc' = "run"
    /\ seals' = [k \in 1..Len(headers) |-> s]
    /\ IF engine.PowMode = ModeFullFake \/ Len(headers) = 0
       THEN /\ errorsOut' = [k \in 1..Len(headers) |-> Nil]
            /\ UNCHANGED <<wpc, windex, inputsClosed, inputsNil, done, errors,
                           checked, in, out, cpc, abort>>
       ELSE /\ wpc' = [w \in 1..Workers |-> "recv"]
            /\ windex' = [w \in 1..Workers |-> 0]
            /\ errors' = [k \in 1..Len(headers) |-> Unset]
            /\ checked' = [k \in 1..Len(headers) |-> FALSE]
            /\ cpc' = "select"
            /\ UNCHANGED <<inputsClosed, inputsNil, done, in, out, errorsOut, abort>>
    /\ UNCHANGED <<built, headers, deviated>>
    /\ UNCHANGED <<call, uncleVars, envVars, hdrVars, rewardVars>>

\* Variant of Dispatch: the index is sent after it was advanced, so every
\* index but the first is the one sent before.
DispatchStale(w) ==
    /\ cpc = "select" /\ ~inputsNil
    /\ w \in DOMAIN wpc /\ wpc[w] = "recv"
    /\ \A v \in DOMAIN wpc : v < w => wpc[v] # "recv"
    /\ windex' = [windex EXCEPT ![w] = IF in > 0 THEN in - 1 ELSE in]
    /\ wpc' = [wpc EXCEPT ![w] = "verify"]
    /\ in' = in + 1
    /\ inputsNil' = (in + 1 = Len(headers))
    /\ UNCHANGED <<inputsClosed, done, errors, checked, out, cpc, errorsOut, abort>>
    /\ UNCHANGED <<call, uncleVars, envVars, batchVars, hdrVars, rewardVars>>

\* Variant of Dispatch: the send of the last index also closes inputs.
DispatchClosing(w) ==
    /\ cpc = "select" /\ ~inputsNil
    /\ w \in DOMAIN wpc /\ wpc[w] = "recv"
    /\ \A v \in DOMAIN wpc : v < w => wpc[v] # "recv"
    /\ windex' = [windex EXCEPT ![w] = in]
    /\ wpc' = [wpc EXCEPT ![w] = "verify"]
    /\ in' = in + 1
    /\ inputsNil' = (in + 1 = Len(headers))
    /\ inputsClosed' = (in + 1 = Len(headers))
    /\ UNCHANGED <<done, errors, checked, out, cpc, errorsOut, abort>>
    /\ UNCHANGED <<call, uncleVars, envVars, batchVars, hdrVars, rewardVars>>

\* case inputs <- in: the unbuffered send meets a worker blocked in
\* "range inputs".  The workers run the same code and carry no identity, so
\* of the blocked receivers the lowest-numbered one stands for any of them.
Dispatch(w) ==
    /\ cpc = "select" /\ ~inputsNil
    /\ w \in DOMAIN wpc /\ wpc[w] = "recv"
    /\ \A v \in DOMAIN wpc : v < w => wpc[v] # "recv"
    /\ windex' = [windex EXCEPT ![w] = in]
    /\ wpc' = [wpc EXCEPT ![w] = "verify"]
    /\ in' = in + 1
    /\ inputsNil' = (in + 1 = Len(headers))
    /\ UNCHANGED <<inputsClosed, done, errors, checked, out, cpc, errorsOut, abort>>
    /\ UNCHANGED <<call, uncleVars, envVars, batchVars, hdrVars, rewardVars>>

\* Variant of WorkerVerify: the worker goes on to signal completion without
\* having stored its result.
WorkerVerifyNoWrite(w) ==
    /\ w \in DOMAIN wpc /\ wpc[w] = "verify"
    /\ wpc' = [wpc EXCEPT ![w] = "send"]
    /\ UNCHANGED <<windex, inputsClosed, inputsNil, done, errors, checked, in,
                   out, cpc, errorsOut, abort>>
    /\ UNCHANGED <<call, uncleVars, envVars, batchVars, hdrVars, rewardVars>>

\* errors[index] = ethash.verifyHeaderWorker(chain, headers, seals, index)
WorkerVerify(w) ==
    /\ w \in DOMAIN wpc /\ wpc[w] = "verify"
    /\ errors' = [errors EXCEPT ![windex[w] + 1] =
                     verifyHeaderWorker(engine, config, now, chain, headers,
                                        seals, windex[w] + 1)]
    /\ wpc' = [wpc EXCEPT ![w] = "send"]
    /\ UNCHANGED <<windex, inputsClosed, inputsNil, done, checked, in, out,
                   cpc, errorsOut, abort>>
    /\ UNCHANGED <<call, uncleVars, envVars, batchVars, hdrVars, rewardVars>>

\* done <- index: blocks while the buffer holds `workers` entries.  The
\* loop variable is dead until the next receive.
WorkerSend(w) ==
    /\ w \in DOMAIN wpc /\ wpc[w] = "send"
    /\ Len(done) < Workers
    /\ done' = Append(done, windex[w])
    /\ wpc' = [wpc EXCEPT ![w] = "recv"]
    /\ windex' = [windex EXCEPT ![w] = 0]
    /\ UNCHANGED <<inputsClosed, inputsNil, errors, checked, in, out,
                   cpc, errorsOut, abort>>
    /\ UNCHANGED <<call, uncleVars, envVars, batchVars, hdrVars, rewardVars>>

\* "range inputs" ends once inputs is closed: the goroutine returns.
WorkerExit(w) ==
    /\ w \in DOMAIN wpc /\ wpc[w] = "recv" /\ inputsClosed
    /\ wpc' = [wpc EXCEPT ![w] = "exit"]
    /\ UNCHANGED <<windex, inputsClosed, inputsNil, done, errors, checked, in,
                   out, cpc, errorsOut, abort>>
    /\ UNCHANGED <<call, uncleVars, envVars, batchVars, hdrVars, rewardVars>>

\* case index := <-done: checked[index] = true, then the emit loop starts.
CoordRecvDone ==
    /\ cpc = "select" /\ done # <<>>
    /\ checked' = [checked EXCEPT ![Head(done) + 1] = TRUE]
    /\ done' = Tail(done)
    /\ cpc' = "emit"
    /\ UNCHANGED <<wpc, windex, inputsClosed, inputsNil, errors, in, out,
                   errorsOut, abort>>
    /\ UNCHANGED <<call, uncleVars, envVars, batchVars, hdrVars, rewardVars>>

\* Variant of NextReady: the emit loop does not wait for checked[out].
NextReadyAlways == TRUE

\* The loop condition of "for ...; checked[out]; out++".
NextReady == checked[out + 1]

\* Variant of CoordEmit: the coordinator returns without closing inputs.
CoordEmitNoClose ==
    /\ cpc = "emit"
    /\ IF NextReady
       THEN /\ Len(errorsOut) < Len(headers)
            /\ errorsOut' = Append(errorsOut, errors[out + 1])
            /\ IF out = Len(headers) - 1
               THEN /\ cpc' = "finished"
                    /\ out' = out
               ELSE /\ out' = out + 1
                    /\ UNCHANGED cpc
       ELSE /\ cpc' = "select"
            /\ UNCHANGED <<errorsOut, out>>
    /\ UNCHANGED <<wpc, windex, inputsClosed, inputsNil, done, errors, checked,
                   in, abort>>
    /\ UNCHANGED <<call, uncleVars, envVars, batchVars, hdrVars, rewardVars>>

\* One turn of the emit loop: while checked[out], errorsOut <- errors[out];
\* after the last index the goroutine returns and the deferred
\* close(inputs) runs; when checked[out] is false the select is re-entered.
CoordEmit ==
    /\ cpc = "emit"
    /\ IF NextReady
       THEN /\ Len(errorsOut) < Len(headers)
            /\ errorsOut' = Append(errorsOut, errors[out + 1])
            /\ IF out = Len(headers) - 1
               THEN /\ cpc' = "finished"
                    /\ inputsClosed' = TRUE
                    /\ out' = out
               ELSE /\ out' = out + 1
                    /\ UNCHANGED <<cpc, inputsClosed>>
       ELSE /\ cpc' = "select"
            /\ UNCHANGED <<errorsOut, out, inputsClosed>>
    /\ UNCHANGED <<wpc, windex, inputsNil, done, errors, checked, in, abort>>
    /\ UNCHANGED <<call, uncleVars, envVars, batchVars, hdrVars, rewardVars>>

\* case <-abort: return, and the deferred close(inputs) runs.
CoordAbort ==
    /\ cpc = "select" /\ abort
    /\ cpc' = "aborted"
    /\ inputsClosed' = TRUE
    /\ UNCHANGED <<wpc, windex, inputsNil, done, errors, checked, in, out,
                   errorsOut, abort>>
    /\ UNCHANGED <<call, uncleVars, envVars, batchVars, hdrVars, rewardVars>>

\* The caller signals abort.
CallerAbort ==
    /\ bpc = "run" /\ ~abort
    /\ abort' = TRUE
    /\ UNCHANGED <<wpc, windex, inputsClosed, inputsNil, done, errors, checked,
                   in, out, cpc, errorsOut>>
    /\ UNCHANGED <<call, uncleVars, envVars, batchVars, hdrVars, rewardVars>>

FullFakeEngine == [PowMode |-> ModeFullFake, fakeFail |-> 0]

InitBatch ==
    /\ engine \in {NormalEngine, FullFakeEngine}
    /\ config = SeaConfig
    /\ now = NowUnix
    /\ chain = BaseChain(config)
    /\ InitBatchVars /\ InitPipe /\ InitHdr /\ InitNoReward /\ call = NoCall
    /\ InitNoUncles

WorkerIds == 1..GOMAXPROCS

NextBatch ==
    \/ \E j \in 1..Len(chain) : AppendKnown(j)
    \/ AppendMined
    \/ \E flaw \in Flaws : AppendFlawed(flaw)
    \/ AppendDetached
    \/ \E s \in BOOLEAN : CallVerifyHeaders(s)
    \/ \E w \in WorkerIds : Dispatch(w)
    \/ \E w \in WorkerIds : WorkerVerify(w)
    \/ \E w \in WorkerIds : WorkerSend(w)
    \/ \E w \in WorkerIds : WorkerExit(w)
    \/ CoordRecvDone
    \/ CoordEmit
    \/ CoordAbort
    \/ CallerAbort

vars == <<engine, config, now, chain, built, headers, seals, deviated, bpc,
          wpc, windex, inputsClosed, inputsNil, done, errors, checked, in, out,
          cpc, errorsOut, abort, hdr, hpc, perr, hdr0, verr, vseal,
          fheader, fstate, fpc, fpre, funcles, paid, fcount, call,
          cuncles, ublock, uerr, upc, ucount>>

SpecBatch == InitBatch /\ [][NextBatch]_vars

\* The runs in which the caller never signals abort.  The Go scheduler runs
\* a goroutine that can take a step, so a step of the pipeline is taken
\* while one is possible.
PipelineStep ==
    \/ \E w \in WorkerIds : Dispatch(w)
    \/ \E w \in WorkerIds : WorkerVerify(w)
    \/ \E w \in WorkerIds : WorkerSend(w)
    \/ \E w \in WorkerIds : WorkerExit(w)
    \/ CoordRecvDone
    \/ CoordEmit

NextNoAbort ==
    \/ \E j \in 1..Len(chain) : AppendKnown(j)
    \/ AppendMined
    \/ \E flaw \in Flaws : AppendFlawed(flaw)
    \/ AppendDetached
    \/ \E s \in BOOLEAN : CallVerifyHeaders(s)
    \/ PipelineStep

SpecNoAbort == InitBatch /\ [][NextNoAbort]_vars /\ WF_vars(PipelineStep)

(***************************************************************************)
(* Properties of VerifyHeaders.                                            *)
(***************************************************************************)
\* VerifyHeaders runs its pipeline (the engine is not in ModeFullFake and
\* the batch is not empty).
Piped == bpc = "run" /\ engine.PowMode # ModeFullFake /\ Len(headers) # 0

\* headers[k] is not a header of the chain.
Unknown(k) == GetHeader(chain, Hash(headers[k]), headers[k].Number) = NoHeader

\* C1: in VerifyHeaders (pipeline running), whatever the order in which the
\* workers complete, the k-th value delivered on the results channel is the
\* verification result of headers[k].
C1_InOrder ==
    Piped => \A k \in 1..Len(errorsOut) :
                 errorsOut[k] = verifyHeaderWorker(engine, config, now, chain,
                                                   headers, seals, k)

\* A later index completed before an earlier one that is still pending,
\* results have been delivered, and the results seen so far differ.
C1_Witness ==
    /\ Piped /\ Len(errorsOut) >= 1
    /\ \E k \in 2..Len(headers) : checked[k] /\ ~checked[k - 1]
    /\ \E i, j \in 1..Len(headers) :
           errors[i] # Unset /\ errors[j] # Unset /\ errors[i] # errors[j]

\* Everything was delivered and every goroutine is gone.
Terminated ==
    /\ cpc = "finished" /\ inputsClosed
    /\ Len(errorsOut) = Len(headers) /\ out = Len(headers) - 1
    /\ \A w \in DOMAIN wpc : wpc[w] = "exit"

\* C2: if the caller never signals abort, VerifyHeaders eventually has
\* delivered exactly len(headers) results, the coordinator has returned,
\* inputs is closed and every worker has terminated, and never more than
\* len(headers) results are delivered.
C2_Delivers ==
    /\ [](Len(errorsOut) <= Len(headers))
    /\ (Piped ~> []Terminated)

C2_Witness == Piped /\ Terminated /\ ~abort /\ Workers >= 2

\* C3: after abort, no worker stays blocked forever on sending to done: the
\* coordinator has returned on abort, so nothing receives from done any
\* more, and a worker at "done <- index" with the buffer full never leaves.
C3_NoWorkerBlocked ==
    ~(cpc = "aborted"
      /\ \E w \in DOMAIN wpc : wpc[w] = "send" /\ Len(done) = Workers)

\* The parent the worker resolves is the one VerifyHeader would look up.
SameParent(k) ==
    /\ workerParent(chain, headers, k) # NoHeader
    /\ workerParent(chain, headers, k)
         = GetHeader(chain, headers[k].ParentHash, headers[k].Number - 1)

\* C4 as stated: the result delivered for every index equals
\* VerifyHeader(chain, h, seal) called on that header alone.
C4_SameAsSingle ==
    Piped => \A k \in 1..Len(errorsOut) :
                 errorsOut[k] = VerifyHeader(engine, config, now, chain,
                                             headers[k], seals[k])

\* C4 amended: the result delivered for an index equals VerifyHeader on that
\* header alone whenever the parent the worker resolves (the chain's header
\* for index 0, else the preceding element when it is the parent) is the
\* header the chain holds under the header's ParentHash.
C4_SameAsSingleWhenSameParent ==
    Piped => \A k \in 1..Len(errorsOut) :
                 SameParent(k) =>
                     errorsOut[k] = VerifyHeader(engine, config, now, chain,
                                                 headers[k], seals[k])

\* A result was delivered for an unknown header past index 0 whose parent
\* is both the preceding element and a header of the chain, and it is the
\* result of the full verification.
C4_Witness ==
    /\ Piped
    /\ \E k \in 2..Len(errorsOut) :
           /\ SameParent(k) /\ Unknown(k)
           /\ errorsOut[k] = verifyHeader(engine, config, now, headers[k],
                                          headers[k - 1], FALSE, seals[k])

\* The batch is a chain of headers on the tip of the chain.
Linked ==
    /\ headers[1].ParentHash = Hash(chain[Len(chain)])
    /\ \A k \in 2..Len(headers) : Hash(headers[k - 1]) = headers[k].ParentHash

\* headers[k] is the invalid element of the batch.
FlawAt(k) ==
    \/ BigCmp(headers[k].GasUsed, headers[k].GasLimit) > 0
    \/ ~headers[k].FuzzyOK /\ seals[k]

\* C5: an error at an index does not stop the later indices.  Unless the
\* caller aborts, every index gets a result; an unknown header whose
\* ParentHash is the hash of the preceding element gets the result of
\* verifyHeader against that element, whatever that element's own result;
\* and in a batch of linked headers on the chain's tip exactly the invalid
\* elements get an error ([ok, err, ok]).
C5_ErrorDoesNotStop ==
    (Piped /\ cpc = "finished") =>
        /\ Len(errorsOut) = Len(headers)
        /\ \A k \in 2..Len(headers) :
               (Hash(headers[k - 1]) = headers[k].ParentHash /\ Unknown(k)) =>
                   errorsOut[k] = verifyHeader(engine, config, now, headers[k],
                                               headers[k - 1], FALSE, seals[k])
        /\ Linked => \A k \in 1..Len(headers) :
                         (errorsOut[k] = Nil) <=> ~FlawAt(k)

\* A finished batch in which an element failed and the one after it,
\* verified against the failed one, passed.
C5_Witness ==
    /\ Piped /\ cpc = "finished" /\ Linked
    /\ \E k \in 1..(Len(headers) - 1) :
           /\ FlawAt(k) /\ errorsOut[k] # Nil
           /\ errorsOut[k + 1] = Nil

(***************************************************************************)
(* A single header: the node mines on its chain, and headers arrive that   *)
(* are stamped by Prepare and checked by VerifyHeader.                     *)
(***************************************************************************)
\* Most headers the chain of the verifying node holds.
MaxChain == 2

\* Seconds between a header and its parent.
Gaps == {4, 10, 20}

\* The ways an arriving header deviates from the honestly stamped header on
\* the chain's tip, in a fixed order.
Devs ==
    <<"none", "forgeNN", "forgePP", "forgeAlpha", "NPzero", "N", "number",
      "timeEq", "future", "difficulty", "gasUsed", "gasLimitHigh",
      "gasLimitLow", "gasCap", "extra", "fuzzy", "target", "dao", "fork",
      "parent", "timeBefore">>

\* The (n, p) VerifySeal recomputes from a header's own Alpha, NN and PP.
SelfNP(cfg, h) ==
    IF IsSeafork(cfg, h.Number) THEN VerifyDifficultyBySea(h)
    ELSE VerifyDifficultyBygen(h)

\* h with N and P set to what its own Alpha, NN and PP give.
Restamped(cfg, h) ==
    [h EXCEPT !.N = SelfNP(cfg, h)[1], !.P = SelfNP(cfg, h)[2]]

\* Header h, a child of par, with one deviation.  The forged variants keep
\* the header consistent with itself: N and P follow from the forged field.
Deviate(cfg, h, par, d) ==
    CASE d = "none" -> h
      [] d = "forgeNN" -> Restamped(cfg, [h EXCEPT !.NN = h.NN + 1])
      [] d = "forgePP" -> Restamped(cfg, [h EXCEPT !.PP = h.PP + 1])
      [] d = "forgeAlpha" ->
            Restamped(cfg, [h EXCEPT !.Alpha =
                                   IF IsSeafork(cfg, h.Number) THEN 4 ELSE 100])
      [] d = "NPzero" -> [h EXCEPT !.NP = <<>>]
      [] d = "N" -> [h EXCEPT !.N = h.N + 1]
      [] d = "number" -> [h EXCEPT !.Number = h.Number + 1]
      [] d = "timeEq" -> [h EXCEPT !.Time = par.Time]
      [] d = "future" -> [h EXCEPT !.Time = NowUnix + allowedFutureBlockTime + 1]
      [] d = "difficulty" -> [h EXCEPT !.Difficulty = h.Difficulty + 1]
      [] d = "gasUsed" -> [h EXCEPT !.GasUsed = BigAdd(h.GasLimit, BigFromNat(1))]
      [] d = "gasLimitHigh" ->
            [h EXCEPT !.GasLimit =
                 BigAdd(par.GasLimit, BigDivSmall(par.GasLimit, GasLimitBoundDivisor))]
      [] d = "gasLimitLow" -> [h EXCEPT !.GasLimit = BigFromNat(MinGasLimit - 1)]
      [] d = "gasCap" -> [h EXCEPT !.GasLimit = BigAdd(GasCap, BigFromNat(1))]
      [] d = "extra" -> [h EXCEPT !.ExtraLen = MaximumExtraDataSize + 1]
      [] d = "fuzzy" -> [h EXCEPT !.FuzzyOK = FALSE]
      [] d = "target" -> [h EXCEPT !.TargetOK = FALSE]
      [] d = "dao" -> [h EXCEPT !.DAOExtraOK = FALSE]
      [] d = "fork" -> [h EXCEPT !.ForkHashOK = FALSE]
      [] d = "parent" -> [h EXCEPT !.ParentHash = <<"unknown">>]
      [] d = "diffZero" -> [h EXCEPT !.Difficulty = 0]
      [] d = "timeBefore" ->
            [h EXCEPT !.Time = IF par.Time > 0 THEN par.Time - 1 ELSE 0]

Tip == chain[Len(chain)]

\* The node's own miner extends the chain: Prepare on a fresh header, which
\* is then sealed and imported.
Mine(dt) ==
    /\ hpc = "idle" /\ Len(chain) < MaxChain
    /\ chain' = Append(chain, Mined(config, chain, dt))
    /\ cuncles' = Append(cuncles, <<>>)
    /\ UNCHANGED <<engine, config, now, ublock, uerr, upc, ucount>>
    /\ UNCHANGED <<call, batchVars, pipeVars, hdrVars, rewardVars>>

\* A header arrives: a child of the tip, dt after it, with at most two
\* deviations (Devs[i] then Devs[j]).
Receive(dt, i, j) ==
    /\ hpc = "idle"
    /\ hdr' = Deviate(config,
                      Deviate(config, Mined(config, chain, dt), Tip, Devs[i]),
                      Tip, Devs[j])
    /\ hpc' = "received"
    /\ UNCHANGED <<perr, hdr0, verr, vseal>>
    /\ UNCHANGED <<call, uncleVars, envVars, batchVars, pipeVars, rewardVars>>

\* A header the chain already holds arrives again.
ReceiveKnown(k) ==
    /\ hpc = "idle"
    /\ hdr' = chain[k]
    /\ hpc' = "received"
    /\ UNCHANGED <<perr, hdr0, verr, vseal>>
    /\ UNCHANGED <<call, uncleVars, envVars, batchVars, pipeVars, rewardVars>>

\* Prepare is called on the header.
DoPrepare ==
    /\ hpc = "received"
    /\ hdr0' = hdr
    /\ perr' = Prepare(config, chain, hdr)[1]
    /\ hdr' = Prepare(config, chain, hdr)[2]
    /\ hpc' = IF Prepare(config, chain, hdr)[1] = Nil THEN "prepared" ELSE "unprepared"
    /\ UNCHANGED <<verr, vseal>>
    /\ UNCHANGED <<call, uncleVars, envVars, batchVars, pipeVars, rewardVars>>

\* VerifyHeader is called on the header, as it arrived or as Prepare left it.
DoVerifyHeader(seal) ==
    /\ hpc \in {"received", "prepared", "unprepared"}
    /\ verr' = VerifyHeader(engine, config, now, chain, hdr, seal)
    /\ vseal' = seal
    /\ hpc' = "verified"
    /\ UNCHANGED <<hdr, perr, hdr0>>
    /\ UNCHANGED <<call, uncleVars, envVars, batchVars, pipeVars, rewardVars>>

\* The header is dropped.
Discard ==
    /\ hpc \in {"verified", "unprepared"}
    /\ hdr' = NoHeader /\ hpc' = "idle" /\ perr' = Unset /\ hdr0' = NoHeader
    /\ verr' = Unset /\ vseal' = FALSE
    /\ UNCHANGED <<call, uncleVars, envVars, batchVars, pipeVars, rewardVars>>

InitHeader ==
    /\ engine = NormalEngine
    /\ config \in Configs
    /\ now = NowUnix
    /\ chain = <<Genesis>>
    /\ InitBatchVars /\ InitPipe /\ InitHdr /\ InitNoReward /\ call = NoCall
    /\ InitNoUncles

NextHeader ==
    \/ \E dt \in Gaps : Mine(dt)
    \/ \E dt \in Gaps : \E j \in 1..Len(Devs) : \E i \in 1..j : Receive(dt, i, j)
    \/ \E k \in 1..Len(chain) : ReceiveKnown(k)
    \/ DoPrepare
    \/ \E seal \in BOOLEAN : DoVerifyHeader(seal)
    \/ Discard

SpecHeader == InitHeader /\ [][NextHeader]_vars

(***************************************************************************)
(* Properties of header verification and Prepare.                          *)
(***************************************************************************)
\* The parent the chain holds for hdr.
HdrParent == GetHeader(chain, hdr.ParentHash, hdr.Number - 1)

\* hdr was not in the chain and VerifyHeader returned nil for it: it was
\* verified against HdrParent and accepted.
Accepted ==
    /\ hpc = "verified" /\ verr = Nil
    /\ GetHeader(chain, Hash(hdr), hdr.Number) = NoHeader

\* <<n, p, alpha, NP>> of the active regime for hdr on its parent.
Regime ==
    IF IsSeafork(config, HdrParent.Number + 1)
    THEN CalcDifficultyBySea(hdr, HdrParent)
    ELSE CalcDifficultyByLake(hdr, HdrParent,
             IF hdr.Number >= 13 THEN GetHeaderByNumber(chain, hdr.Number - 12)
             ELSE NoHeader)

C7_NPIncreases ==
    Accepted =>
        /\ hdr.NP = Regime[4]
        /\ BigCmp(hdr.NP, HdrParent.NP) > 0

\* What verifyHeader checks on the fields Prepare does not write.
FrameErrors ==
    {errExtraTooLong, ErrFutureBlock, errGasLimitCap, errGasUsed,
     errGasLimitBounds, ErrBadDAOExtra, ErrBadForkHash}

\* The fields of hdr that Prepare does not write pass verifyHeader's checks.
FrameValid ==
    /\ hdr.ExtraLen <= MaximumExtraDataSize
    /\ hdr.Time <= now + allowedFutureBlockTime
    /\ verifyGas(hdr, HdrParent) = Nil
    /\ hdr.DAOExtraOK /\ hdr.ForkHashOK

\* VerifyHeader(seal = false) ran on hdr right after a successful Prepare.
VerifiedAfterPrepare == hpc = "verified" /\ perr = Nil /\ ~vseal

GenBlockReward == BigMul(BigFromNat(45), BigPow10(16))
GenBlockUncleReward == BigMul(BigFromNat(5), BigPow10(16))
GenBlockEcoReward == BigPow10(15)
TotalCoin == BigFromNat(13300000)

\* len(CDAddress): the ecosystem accounts, all different.
NumCDAddress == 100

blockFiveYearNumber ==
    <<3153600, 9460800, 22075200, 47304000, 97761600, 198676800, 400507200>>

\* totalReward of computerRewardBase: TotalCoin * 1e18.
TotalReward == BigMul(TotalCoin, BigPow10(18))

\* Variant of RewardShift: a boundary block belongs to the upper epoch.
RewardShiftFromBoundary(nums) ==
    Cardinality({k \in 1..Len(blockFiveYearNumber) : nums >= blockFiveYearNumber[k]})

\* The right shift computerRewardBase applies to the base rewards of block
\* number nums: the number of halving boundaries below nums.
RewardShift(nums) ==
    Cardinality({k \in 1..Len(blockFiveYearNumber) : nums > blockFiveYearNumber[k]})

\* Variant of computerRewardBase: at the cap only the block reward is zero.
computerRewardBaseUncleEcoKept(header) ==
    IF BigCmp(TotalReward, header.Rewards) <= 0
    THEN <<<<>>, BigRsh(GenBlockUncleReward, RewardShift(header.Number)), <<>>,
           BigRsh(GenBlockEcoReward, RewardShift(header.Number))>>
    ELSE <<BigRsh(GenBlockReward, RewardShift(header.Number)),
           BigRsh(GenBlockUncleReward, RewardShift(header.Number)),
           <<>>,
           BigRsh(GenBlockEcoReward, RewardShift(header.Number))>>

\* computerRewardBase: <<g, t, l, e>>.
computerRewardBase(header) ==
    IF BigCmp(TotalReward, header.Rewards) <= 0
    THEN <<<<>>, <<>>, <<>>, <<>>>>
    ELSE <<BigRsh(GenBlockReward, RewardShift(header.Number)),
           BigRsh(GenBlockUncleReward, RewardShift(header.Number)),
           <<>>,
           BigRsh(GenBlockEcoReward, RewardShift(header.Number))>>

\* Accounts: the ecosystem accounts by their position in CDAddress, then the
\* coinbase of the block and the coinbase of its uncles.
MinerAccount == NumCDAddress + 1
UncleAccount == NumCDAddress + 2
Accounts == 1..(NumCDAddress + 2)

\* state.AddBalance
AddBalance(state, account, amount) ==
    [state EXCEPT ![account] = BigAdd(@, amount)]

\* Variant of accumulateRewardsGen: header.Rewards leaves out what the
\* uncles were credited.
accumulateRewardsGenUnclesUncounted(state, header, u) ==
    LET base == computerRewardBase(header)
        minerReward == base[1]
        uncleReward == base[2]
        ecoReward == base[4]
        rcount == BigMulSmall(uncleReward, u)
        r == BigDivSmall(rcount, 6)
        reward == BigAdd(minerReward, r)
        rcd == BigMulSmall(ecoReward, NumCDAddress)
        s1 == [a \in Accounts |->
                  IF a = UncleAccount THEN BigAdd(state[a], rcount) ELSE state[a]]
        s2 == AddBalance(s1, header.Coinbase, reward)
        s3 == [a \in Accounts |->
                  IF a <= NumCDAddress THEN BigAdd(s2[a], ecoReward) ELSE s2[a]]
        r1 == BigAdd(BigAdd(reward, rcd), header.Rewards)
    IN  <<s3, r1, BigAdd(BigAdd(rcount, reward), rcd)>>

\* accumulateRewardsGen for a block with u uncles (all mined by
\* UncleAccount): <<state, header.Rewards, total credited>> after the call.
accumulateRewardsGen(state, header, u) ==
    LET base == computerRewardBase(header)
        minerReward == base[1]
        uncleReward == base[2]
        ecoReward == base[4]
        rcount == BigMulSmall(uncleReward, u)
        r == BigDivSmall(rcount, 6)
        reward == BigAdd(minerReward, r)
        rcd == BigMulSmall(ecoReward, NumCDAddress)
        s1 == [a \in Accounts |->
                  IF a = UncleAccount THEN BigAdd(state[a], rcount) ELSE state[a]]
        s2 == AddBalance(s1, header.Coinbase, reward)
        s3 == [a \in Accounts |->
                  IF a <= NumCDAddress THEN BigAdd(s2[a], ecoReward) ELSE s2[a]]
        r1 == BigAdd(BigAdd(BigAdd(reward, rcd), rcount), header.Rewards)
    IN  <<s3, r1, BigAdd(BigAdd(rcount, reward), rcd)>>

\* The number of block numbers in 1..n whose rewards are shifted by k.
EraBlocks(n, k) ==
    LET lo == IF k = 0 THEN 0 ELSE blockFiveYearNumber[k]
        hi == IF k = Len(blockFiveYearNumber) THEN n
              ELSE Min(n, blockFiveYearNumber[k + 1])
    IN  IF hi > lo THEN hi - lo ELSE 0

\* What blocks 1..n credit in total at `amount` per block before halving,
\* summed over the shifts k and above.
RECURSIVE HistorySum(_, _, _)
HistorySum(amount, n, k) ==
    IF k > Len(blockFiveYearNumber) THEN <<>>
    ELSE BigAdd(BigMul(BigRsh(amount, k), BigFromNat(EraBlocks(n, k))),
                HistorySum(amount, n, k + 1))

\* The state after blocks 1..n were finalized without uncles, all mined by
\* MinerAccount, and the cumulative rewards the header of block n carries.
HistoryState(n) ==
    [a \in Accounts |->
        IF a <= NumCDAddress THEN HistorySum(GenBlockEcoReward, n, 0)
        ELSE IF a = MinerAccount THEN HistorySum(GenBlockReward, n, 0)
        ELSE <<>>]

HistoryRewards(n) ==
    BigAdd(HistorySum(GenBlockReward, n, 0),
           BigMulSmall(HistorySum(GenBlockEcoReward, n, 0), NumCDAddress))

\* Most blocks finalized in a run, and most uncles of a block.
MaxBlocks == 3
MaxUnclesTried == 2

\* The block one before the block at which a chain without uncles crosses
\* TotalCoin * 1e18.
CapStart == 670154327

\* The block numbers at which a run starts: a fresh chain, the last block
\* before the first halving, and shortly before the cap.
StartNumbers == {1, blockFiveYearNumber[1], CapStart}

\* Finalize: accumulateRewardsGen on the header with u uncles.
Finalize(u) ==
    /\ fpc = "open" /\ fcount < MaxBlocks
    /\ fpre' = [header |-> fheader, state |-> fstate]
    /\ fstate' = accumulateRewardsGen(fstate, fheader, u)[1]
    /\ fheader' = [fheader EXCEPT !.Rewards = accumulateRewardsGen(fstate, fheader, u)[2]]
    /\ paid' = BigAdd(paid, accumulateRewardsGen(fstate, fheader, u)[3])
    /\ funcles' = u
    /\ fcount' = fcount + 1
    /\ fpc' = "finalized"
    /\ UNCHANGED <<call, uncleVars, envVars, batchVars, pipeVars, hdrVars>>

\* The next block's header is built on the finalized one: it carries the
\* cumulative rewards.
NewHeader ==
    /\ fpc = "finalized" /\ fcount < MaxBlocks
    /\ fheader' = [fheader EXCEPT !.Number = @ + 1]
    /\ fpc' = "open"
    /\ UNCHANGED <<fstate, fpre, funcles, paid, fcount>>
    /\ UNCHANGED <<call, uncleVars, envVars, batchVars, pipeVars, hdrVars>>

InitReward ==
    /\ engine = NormalEngine /\ config = SeaConfig /\ now = NowUnix
    /\ chain = <<Genesis>>
    /\ InitBatchVars /\ InitPipe /\ InitHdr /\ call = NoCall /\ InitNoUncles
    /\ \E n \in StartNumbers :
          /\ fheader = [Number |-> n, Coinbase |-> MinerAccount,
                        Rewards |-> HistoryRewards(n - 1)]
          /\ fstate = HistoryState(n - 1)
          /\ paid = HistoryRewards(n - 1)
    /\ fpc = "open" /\ fpre = NoHeader /\ funcles = 0 /\ fcount = 0

NextReward ==
    \/ \E u \in 0..MaxUnclesTried : Finalize(u)
    \/ NewHeader

SpecReward == InitReward /\ [][NextReward]_vars

(***************************************************************************)
(* Properties of Finalize.                                                 *)
(***************************************************************************)
\* C9: the total of the miner, uncle and ecosystem payouts credited by
\* Finalize along a chain never exceeds TotalCoin * 1e18.
C9_SupplyCap == BigCmp(paid, TotalReward) <= 0

\* Finalize ran on a header whose cumulative rewards had reached the cap.
FinalizedAtCap ==
    fpc = "finalized" /\ BigCmp(fpre.header.Rewards, TotalReward) >= 0

\* C10: Finalize on a header whose cumulative rewards are already at or
\* above TotalCoin * 1e18 pays nothing: no balance changes and
\* header.Rewards stays as it was.
C10_NothingPaidAtCap ==
    FinalizedAtCap =>
        /\ fstate = fpre.state
        /\ fheader.Rewards = fpre.header.Rewards

\* Finalize ran at the cap on a block with uncles.
C10_Witness == FinalizedAtCap /\ funcles > 0 /\ fstate = fpre.state

\* Finalize ran on a header whose cumulative rewards were below the cap.
FinalizedBelowCap ==
    fpc = "finalized" /\ BigCmp(fpre.header.Rewards, TotalReward) < 0

\* The halved base rewards of the finalized block, from the schedule.
HalvedG == BigRsh(GenBlockReward, RewardShift(fpre.header.Number))
HalvedT == BigRsh(GenBlockUncleReward, RewardShift(fpre.header.Number))
HalvedE == BigRsh(GenBlockEcoReward, RewardShift(fpre.header.Number))

\* The sum of the balances of accounts lo..hi.
RECURSIVE SumBalances(_, _, _)
SumBalances(state, lo, hi) ==
    IF lo > hi THEN <<>>
    ELSE IF lo = hi THEN state[lo]
    ELSE BigAdd(SumBalances(state, lo, (lo + hi) \div 2),
                SumBalances(state, (lo + hi) \div 2 + 1, hi))

\* What Finalize credited in total, from the amounts of the claim:
\* (G' + r) + 100 * E' + |U| * T' with r = floor(|U| * T' / 6).
CreditedTotal ==
    BigAdd(BigAdd(BigAdd(HalvedG, BigDivSmall(BigMulSmall(HalvedT, funcles), 6)),
                  BigMulSmall(HalvedE, NumCDAddress)),
           BigMulSmall(HalvedT, funcles))

\* C11: below the cap Finalize credits T' to the coinbase of each uncle,
\* G' + floor(|U| * T' / 6) to the coinbase of the block and E' to each of
\* the ecosystem accounts, header.Rewards grows by the sum of these amounts,
\* and the balances grow in total by what header.Rewards grows.
C11_CreditsAndRewards ==
    FinalizedBelowCap =>
        /\ fstate[UncleAccount]
             = BigAdd(fpre.state[UncleAccount], BigMulSmall(HalvedT, funcles))
        /\ fstate[MinerAccount]
             = BigAdd(fpre.state[MinerAccount],
                      BigAdd(HalvedG,
                             BigDivSmall(BigMulSmall(HalvedT, funcles), 6)))
        /\ \A a \in 1..NumCDAddress :
               fstate[a] = BigAdd(fpre.state[a], HalvedE)
        /\ fheader.Rewards = BigAdd(fpre.header.Rewards, CreditedTotal)
        /\ BigAdd(SumBalances(fstate, 1, NumCDAddress + 2), fpre.header.Rewards)
             = BigAdd(SumBalances(fpre.state, 1, NumCDAddress + 2), fheader.Rewards)

\* Finalize ran below the cap on a block with two uncles, whose sixth is
\* rounded down.
C11_Witness ==
    /\ FinalizedBelowCap /\ funcles = 2
    /\ BigMulSmall(BigDivSmall(BigMulSmall(HalvedT, funcles), 6), 6)
         # BigMulSmall(HalvedT, funcles)

(***************************************************************************)
(* Finalize run a second time.  The caller reverts the state to the        *)
(* snapshot taken before the first run and calls Finalize again with the   *)
(* same uncles, either on the header object the first run was given, which *)
(* that run has written to, or on a copy of the header made before it.     *)
(***************************************************************************)
Refinalize(sameObject) ==
    /\ fpc = "finalized" /\ call = NoCall
    /\ call' = [fn |-> "Finalize", args |-> <<sameObject, fcount>>,
                ret |-> [header |-> fheader, state |-> fstate]]
    /\ LET h == IF sameObject THEN fheader ELSE fpre.header
           first == accumulateRewardsGen(fpre.state, fpre.header, funcles)
           second == accumulateRewardsGen(fpre.state, h, funcles)
       IN  /\ fstate' = second[1]
           /\ fheader' = [h EXCEPT !.Rewards = second[2]]
           /\ paid' = BigAdd(BigSub(paid, first[3]), second[3])
    /\ UNCHANGED <<fpc, fpre, funcles, fcount>>
    /\ UNCHANGED <<uncleVars, envVars, batchVars, pipeVars, hdrVars>>

NextRerun ==
    \/ NextReward
    \/ \E sameObject \in BOOLEAN : Refinalize(sameObject)

SpecRerun == InitReward /\ [][NextRerun]_vars

\* Finalize was run a second time on the block, and call.ret holds the
\* header and the state the first run left.
Rerun == call.fn = "Finalize" /\ fpc = "finalized" /\ call.args[2] = fcount

\* C27 as stated: the second run of Finalize on the same header, uncles
\* and state snapshot leaves the header, with its rewards, and the state the
\* first run left.
C27_SameOnRerun ==
    Rerun => fheader = call.ret.header /\ fstate = call.ret.state

\* What the second run leaves, case by case: given a copy of the header
\* the first run received, with header.Rewards as before that run, the
\* header and the state the first run left; given the header the first run
\* has written to, header.Rewards increased again and the same state while
\* these rewards are below the cap, and the snapshot state, nothing being
\* paid, once they have reached it.
RerunByCase ==
    Rerun =>
        IF ~call.args[1]
        THEN fheader = call.ret.header /\ fstate = call.ret.state
        ELSE IF BigCmp(call.ret.header.Rewards, TotalReward) < 0
        THEN /\ BigCmp(fheader.Rewards, call.ret.header.Rewards) > 0
             /\ fstate = call.ret.state
        ELSE /\ fheader.Rewards = call.ret.header.Rewards
             /\ fstate = fpre.state

(***************************************************************************)
(* The engine's functions called on their own: a caller picks arguments    *)
(* and the result of the call is recorded.  The functions keep no state,   *)
(* so a behaviour makes one call.                                          *)
(***************************************************************************)
nonCallVars ==
    <<envVars, batchVars, pipeVars, hdrVars, rewardVars, uncleVars>>

\* The block numbers computerRewardBase is called with: the first block,
\* every halving boundary and the block after it.
ScheduleNumbers ==
    {1} \cup {blockFiveYearNumber[k] + d : k \in 1..Len(blockFiveYearNumber),
                                           d \in {0, 1}}

\* computerRewardBase is called on a header of block n whose cumulative
\* rewards are below the cap.
CallComputerRewardBase(n) ==
    /\ call = NoCall
    /\ call' = [fn |-> "computerRewardBase", args |-> <<n>>,
                ret |-> computerRewardBase([Number |-> n, Rewards |-> <<>>])]
    /\ UNCHANGED nonCallVars

\* The number of halvings of block n by the schedule with inclusive upper
\* boundaries.
ScheduleEpoch(n) ==
    IF n <= blockFiveYearNumber[1] THEN 0
    ELSE IF n > blockFiveYearNumber[Len(blockFiveYearNumber)]
    THEN Len(blockFiveYearNumber)
    ELSE CHOOSE k \in 1..(Len(blockFiveYearNumber) - 1) :
             blockFiveYearNumber[k] < n /\ n <= blockFiveYearNumber[k + 1]

\* C12: computerRewardBase pays the base rewards shifted right by the epoch
\* of the block, boundaries belonging to the lower epoch, and the rewards
\* of the block after a boundary are those of the boundary block shifted
\* right by one.
C12_HalvingSchedule ==
    call.fn = "computerRewardBase" =>
        LET n == call.args[1]
        IN  /\ call.ret = <<BigRsh(GenBlockReward, ScheduleEpoch(n)),
                            BigRsh(GenBlockUncleReward, ScheduleEpoch(n)),
                            <<>>,
                            BigRsh(GenBlockEcoReward, ScheduleEpoch(n))>>
            /\ \A k \in 1..Len(blockFiveYearNumber) :
                   n = blockFiveYearNumber[k] + 1 =>
                       LET b == computerRewardBase(
                                    [Number |-> n - 1, Rewards |-> <<>>])
                       IN  call.ret = <<BigRsh(b[1], 1), BigRsh(b[2], 1), <<>>,
                                        BigRsh(b[4], 1)>>

\* computerRewardBase was called on the block after the first boundary and
\* halved the miner's reward to 2.25e17.
C12_Witness ==
    /\ call.fn = "computerRewardBase"
    /\ call.args[1] = blockFiveYearNumber[1] + 1
    /\ call.ret[1] = BigMul(BigFromNat(225), BigPow10(15))

\* The parent gas limits verifyHeader's gas checks are called with: the
\* minimum, a small and a large limit, 2^63 - 1, 2^63 and 2^64 - 1.
ParentGasLimits ==
    {BigFromNat(MinGasLimit), BigFromNat(8 * GasLimitBoundDivisor),
     BigFromNat(1000000000), GasCap, BigAdd(GasCap, <<1>>),
     BigSub(BigTwo64, <<1>>)}

\* The header gas limits tried on a parent gas limit g: g, the values one
\* below and at the allowed step on both sides of it, the values around the
\* minimum, and the values around 2^63.
HeaderGasLimits(g) ==
    LET limit == BigDivSmall(g, GasLimitBoundDivisor)
        up == {BigAdd(g, BigSub(limit, <<1>>)), BigAdd(g, limit)}
        down == {BigSub(g, BigSub(limit, <<1>>)), BigSub(g, limit)}
    IN  {g, BigFromNat(MinGasLimit - 1), BigFromNat(MinGasLimit),
         GasCap, BigAdd(GasCap, <<1>>)}
        \cup (IF limit = <<>> THEN {} ELSE down)
        \cup (IF limit = <<>> \/ BigCmp(BigAdd(g, limit), BigTwo64) >= 0
              THEN {} ELSE up)

\* The gas checks of verifyHeader run on a header with gas limit h and no
\* gas used against a parent with gas limit g.
CallVerifyGas(g, h) ==
    /\ call = NoCall
    /\ call' = [fn |-> "verifyGas", args |-> <<g, h>>,
                ret |-> verifyGas([GasLimit |-> h, GasUsed |-> <<>>],
                                  [GasLimit |-> g])]
    /\ UNCHANGED nonCallVars

\* |a - b|
BigAbsDiff(a, b) == IF BigCmp(a, b) >= 0 THEN BigSub(a, b) ELSE BigSub(b, a)

\* C16: the gas checks accept a gas limit h against the parent's g only if
\* |h - g| < floor(g / GasLimitBoundDivisor), h >= MinGasLimit and h < 2^63,
\* for every parent gas limit.
C16_GasLimitBounds ==
    (call.fn = "verifyGas" /\ call.ret = Nil) =>
        /\ BigCmp(BigAbsDiff(call.args[2], call.args[1]),
                  BigDivSmall(call.args[1], GasLimitBoundDivisor)) < 0
        /\ BigCmp(call.args[2], BigFromNat(MinGasLimit)) >= 0
        /\ BigCmp(call.args[2], GasCap) <= 0

\* The timespans calcnp and calcnpsea are called with: the values around
\* every threshold of the two functions.
Timespans ==
    {0, 4, 5, 6, 7, 13, 14, 16, 17, 30, 31, 100, 101, 102, 104, 107, 108,
     132, 133, 138, 139, 200, 360, 361, 600, 601, 900, 901, 1000}

\* The values of n and of p they are called with, from the floors up to
\* the cap of p.
NValues == {ParamsN, ParamsN + 1, 7, 10, 40, 256, 1000}
PValues == {ParamsP, ParamsP + 1, 7, 10, 100, 255, 256}

\* The timespans CalcDifficultyByLake and CalcDifficultyBySea are called
\* with: one for each kind of branch, short and long.
BlockSpans == {4, 6, 10, 100, 104, 200, 601, 1000}

CallCalcnp(timespan, n, p) ==
    /\ call = NoCall
    /\ call' = [fn |-> "calcnp", args |-> <<timespan, n, p>>,
                ret |-> calcnp(timespan, n, p)]
    /\ UNCHANGED nonCallVars

CallCalcnpsea(timespan, n, p) ==
    /\ call = NoCall
    /\ call' = [fn |-> "calcnpsea", args |-> <<timespan, n, p>>,
                ret |-> calcnpsea(timespan, n, p)]
    /\ UNCHANGED nonCallVars

\* n is at least params.N and p lies between params.P and 256.
InNPBounds(n, p) == n >= ParamsN /\ p >= ParamsP /\ p <= 256

\* C18: calcnp and calcnpsea, called with n >= params.N and
\* params.P <= p <= 256, return (n', p') within the same bounds, and so do
\* the N and P of every header of a chain built by Prepare.
C18_NPWithinBounds ==
    /\ (call.fn \in {"calcnp", "calcnpsea"}
        /\ InNPBounds(call.args[2], call.args[3]))
           => InNPBounds(call.ret[1], call.ret[2])
    /\ \A k \in 1..Len(chain) : InNPBounds(chain[k].N, chain[k].P)

\* calcnp was called at the floor of p with a long timespan, and p stayed at
\* the floor.
C18_Witness ==
    /\ call.fn = "calcnp" /\ call.args[1] > 138 /\ call.args[3] = ParamsP
    /\ call.ret[2] = ParamsP
    /\ Len(chain) > 1

\* CalcDifficultyByLake is called for block 13, mined timespan seconds after
\* block 1, on a parent with (N, P) = (n, p); the twelve blocks between are
\* at least a second apart.
CallCalcDifficultyByLake(timespan, n, p) ==
    /\ call = NoCall
    /\ timespan >= 12
    /\ LET parent12 == [Genesis EXCEPT !.Number = 1, !.Time = 10]
           parent == [Genesis EXCEPT !.Number = 12, !.N = n, !.P = p,
                                     !.Time = parent12.Time + timespan - 1,
                                     !.NP = BigFromNat(12 * 512)]
           header == Template(parent, 1)
       IN  call' = [fn |-> "CalcDifficultyByLake",
                    args |-> <<timespan, n, p, parent.NP>>,
                    ret |-> CalcDifficultyByLake(header, parent, parent12)]
    /\ UNCHANGED nonCallVars

\* The branch table of calcnp for p < 256, read as nested: the timespan
\* selects the branch, the floor decides whether the branch acts.
LakeTable(t, n, p) ==
    LET a == IF t < 102 THEN <<n, p + 1>>
             ELSE IF t < 108 THEN <<n + 1, p>>
             ELSE IF t > 138 THEN <<n, IF p > ParamsP THEN p - 1 ELSE p>>
             ELSE IF t > 132 THEN <<IF n > ParamsN THEN n - 1 ELSE n, p>>
             ELSE <<n, p>>
    IN  IF a[2] = ParamsP /\ a[1] > ParamsN /\ t > 360
        THEN <<a[1] - 1, a[2]>> ELSE a

\* The same table read as written: each row's condition is the timespan
\* test together with the floor test, and the first row that holds acts.
LakeTableAsListed(t, n, p) ==
    LET a == IF t < 102 THEN <<n, p + 1>>
             ELSE IF t < 108 THEN <<n + 1, p>>
             ELSE IF t > 138 /\ p > ParamsP THEN <<n, p - 1>>
             ELSE IF t > 132 /\ n > ParamsN THEN <<n - 1, p>>
             ELSE <<n, p>>
    IN  IF a[2] = ParamsP /\ a[1] > ParamsN /\ t > 360
        THEN <<a[1] - 1, a[2]>> ELSE a

\* calcnp was called with n and p within their bounds and p < 256.
CalcnpBelowCap ==
    /\ call.fn = "calcnp"
    /\ InNPBounds(call.args[2], call.args[3]) /\ call.args[3] < 256

\* CalcDifficultyByLake, called with timespan t on a parent with (n, p),
\* gives (n1, p1) and adds curNP to the parent's NP.
LakeScenario(t, n, p, n1, p1, curNP) ==
    (call.fn = "CalcDifficultyByLake" /\ call.args[1] = t
     /\ call.args[2] = n /\ call.args[3] = p)
        => /\ call.ret[1] = n1 /\ call.ret[2] = p1 /\ call.ret[3] = t
           /\ call.ret[4] = BigAdd(call.args[4], BigFromNat(curNP))

\* The three pre-Sea scenarios with the floors at 2.
LakeScenarios ==
    /\ ParamsN = 2 /\ ParamsP = 2
    /\ LakeScenario(100, 2, 2, 2, 3, 5832)
    /\ LakeScenario(104, 2, 2, 3, 2, 1728)
    /\ LakeScenario(200, 2, 3, 2, 2, 512)

\* C28 as stated: the three scenarios hold, and for p < 256 calcnp follows
\* the branch table row by row (timespan < 102: p+1; else < 108: n+1; else
\* > 138 and p above the floor: p-1; else > 132 and n above the floor: n-1;
\* then n-1 when p is at the floor, n above it and timespan > 360).
C28_TableAsListed ==
    /\ LakeScenarios
    /\ CalcnpBelowCap
           => call.ret = LakeTableAsListed(call.args[1], call.args[2], call.args[3])

\* C28: the three scenarios hold, and for p < 256 calcnp follows the table
\* with the timespan alone selecting the row: a timespan above 138 lowers p
\* when p is above the floor and otherwise changes nothing in that step (it
\* never reaches the row that lowers n); a timespan of 133..138 lowers n
\* when n is above the floor; the last row then lowers n when p is at the
\* floor, n above it and timespan > 360.
C28_BranchTable ==
    /\ LakeScenarios
    /\ CalcnpBelowCap
           => call.ret = LakeTable(call.args[1], call.args[2], call.args[3])

\* calcnp was called with a timespan of 139..360, p at the floor and n above
\* it, and left both as they were.
C28_Witness ==
    /\ CalcnpBelowCap
    /\ call.args[1] > 138 /\ call.args[1] <= 360
    /\ call.args[3] = ParamsP /\ call.args[2] > ParamsN
    /\ call.ret = <<call.args[2], call.args[3]>>

\* CalcDifficultyBySea is called for block num, mined dt seconds after a
\* parent with (N, P) = (n, p).
CallCalcDifficultyBySea(num, dt, n, p) ==
    /\ call = NoCall
    /\ dt >= 1
    /\ LET parent == [Genesis EXCEPT !.Number = num - 1, !.N = n, !.P = p,
                                     !.Time = (num - 1) * 10,
                                     !.NP = BigFromNat((num - 1) * 512)]
           header == Template(parent, dt)
       IN  call' = [fn |-> "CalcDifficultyBySea",
                    args |-> <<num, dt, n, p, parent.NP>>,
                    ret |-> CalcDifficultyBySea(header, parent)]
    /\ UNCHANGED nonCallVars

\* n^3 * p^6 as an exact integer.
npExact(n, p) ==
    LET bn == BigFromNat(n)
        bp == BigFromNat(p)
        p2 == BigMul(bp, bp)
    IN  BigMul(BigMul(BigMul(bn, bn), bn), BigMul(BigMul(p2, p2), p2))

\* CalcDifficultyBySea was called for a block after block 1 on a parent with
\* (N, P) = (2, 100) and a timespan of 1000.
SeaLongStall ==
    /\ call.fn = "CalcDifficultyBySea"
    /\ call.args[1] > 1 /\ call.args[2] = 1000
    /\ call.args[3] = 2 /\ call.args[4] = 100

\* C29: with the floors at 2, a Sea parent with (N, P) = (2, 100) and a
\* timespan of 1000 gives (n, p) = (2, 86) and curNP = 2^3 * 86^6 - 1000.
C29_SeaLongStall ==
    /\ ParamsN = 2 /\ ParamsP = 2
    /\ SeaLongStall
           => /\ call.ret[1] = 2 /\ call.ret[2] = 86 /\ call.ret[3] = 1000
              /\ BigAdd(call.ret[4], BigFromNat(1000))
                     = BigAdd(call.args[5], npExact(2, 86))

\* What the call gives instead: n is at the floor, so neither n nor p is
\* reduced, and curNP = 2^3 * 100^6 - 1000.
SeaLongStallKept ==
    SeaLongStall
        => /\ call.ret[1] = 2 /\ call.ret[2] = 100 /\ call.ret[3] = 1000
           /\ BigAdd(call.ret[4], BigFromNat(1000))
                  = BigAdd(call.args[5], npExact(2, 100))

\* The timespan CalcDifficultyBySea uses for the call: 10 for block 1, else
\* the seconds between the header and its parent.
SeaTimespan == IF call.args[1] = 1 THEN 10 ELSE call.args[2]

\* C30: in the Sea regime NP - parent.NP = n^3 * p^6 - timespan as exact
\* integers, for every parent (N, P) and every timespan (10 for block 1),
\* both for a direct call of CalcDifficultyBySea and for the headers Prepare
\* stamped on the chain.
C30_ExactIncrement ==
    /\ call.fn = "CalcDifficultyBySea"
           => /\ call.ret[3] = SeaTimespan
              /\ BigAdd(call.ret[4], BigFromNat(SeaTimespan))
                     = BigAdd(call.args[5], npExact(call.ret[1], call.ret[2]))
    /\ \A k \in 2..Len(chain) :
           IsSeafork(config, chain[k].Number)
               => BigAdd(chain[k].NP, BigFromNat(chain[k].Alpha))
                      = BigAdd(chain[k - 1].NP, npExact(chain[k].N, chain[k].P))

\* What the call gives for a parent at (2, 2) and a timespan of 1000: the
\* increment is 512 - 1000 modulo 2^64, that is 2^64 - 488.
SeaWraps ==
    (call.fn = "CalcDifficultyBySea" /\ call.args[1] > 1
     /\ call.args[2] = 1000 /\ call.args[3] = 2 /\ call.args[4] = 2)
        => /\ call.ret[1] = 2 /\ call.ret[2] = 2
           /\ call.ret[4] = BigAdd(call.args[5],
                                   BigSub(BigTwo64, BigFromNat(488)))

\* Where n^3 * p^6 fits 64 bits and is not below the timespan, the increment
\* is the exact difference.
SeaExactInRange ==
    (/\ call.fn = "CalcDifficultyBySea"
     /\ BigCmp(npExact(call.ret[1], call.ret[2]), BigTwo64) < 0
     /\ BigCmp(npExact(call.ret[1], call.ret[2]), BigFromNat(SeaTimespan)) >= 0)
        => BigAdd(call.ret[4], BigFromNat(SeaTimespan))
               = BigAdd(call.args[5], npExact(call.ret[1], call.ret[2]))

\* For block 1 the timespan is 10 whatever the header's time.
SeaBlockOne ==
    (call.fn = "CalcDifficultyBySea" /\ call.args[1] = 1)
        => /\ call.ret[3] = 10
           /\ <<call.ret[1], call.ret[2]>> = calcnpsea(10, call.args[3], call.args[4])

\* A Sea call on a slow block (more than 600 seconds) with p below 256, n at
\* its floor and p above its floor.
SlowAtFloorN ==
    /\ call.fn = "calcnpsea"
    /\ call.args[1] > 600 /\ call.args[3] < 256
    /\ call.args[2] = ParamsN /\ call.args[3] > ParamsP

\* C40: calcnpsea with p < 256 and timespan > 600, n at its floor and p
\* above its floor, returns (n, p) unchanged.
C40_SlowKeepsP ==
    SlowAtFloorN => call.ret = <<call.args[2], call.args[3]>>

\* Such a call beyond 900 seconds returned p unchanged, where the same p on
\* a block of 17 to 600 seconds is lowered by one.
C40_Witness ==
    /\ SlowAtFloorN /\ call.args[1] > 900
    /\ call.ret[2] = call.args[3]
    /\ calcnpsea(17, call.args[2], call.args[3])[2] = call.args[3] - 1

\* C31: in the pre-Sea regime the contribution added to NP is the exact
\* integer n^3 * p^6 for every n >= params.N and p <= 256, both for a direct
\* call of CalcDifficultyByLake and for the headers Prepare stamped on the
\* chain: the product never wraps modulo 2^64.
C31_LakeExact ==
    /\ (call.fn = "CalcDifficultyByLake" /\ InNPBounds(call.args[2], call.args[3]))
           => call.ret[4] = BigAdd(call.args[4], npExact(call.ret[1], call.ret[2]))
    /\ \A k \in 2..Len(chain) :
           ~IsSeafork(config, chain[k].Number)
               => chain[k].NP = BigAdd(chain[k - 1].NP,
                                       npExact(chain[k].N, chain[k].P))

\* What the call gives for a parent at (40, 256) and a fast timespan: n goes
\* to 41, and the contribution is 41^3 * 256^6 modulo 2^64, that is 2^64 less
\* than the product.
LakeWraps ==
    (call.fn = "CalcDifficultyByLake" /\ call.args[1] = 100
     /\ call.args[2] = 40 /\ call.args[3] = 256)
        => /\ call.ret[1] = 41 /\ call.ret[2] = 256
           /\ BigAdd(call.ret[4], BigTwo64)
                  = BigAdd(call.args[4], npExact(41, 256))

\* Where n^3 * p^6 fits 64 bits the contribution is the exact product.
LakeExactInRange ==
    (/\ call.fn = "CalcDifficultyByLake"
     /\ BigCmp(npExact(call.ret[1], call.ret[2]), BigTwo64) < 0)
        => call.ret[4] = BigAdd(call.args[4], npExact(call.ret[1], call.ret[2]))

\* A chain of blocks 0..k mined under cfg one second apart.
RECURSIVE SecondsChain(_, _)
SecondsChain(cfg, k) ==
    IF k = 0 THEN <<Genesis>>
    ELSE LET c == CHOOSE r \in {SecondsChain(cfg, k - 1)} : TRUE
         IN  Append(c, Mined(cfg, c, 1))

\* The block numbers Prepare is called for before the Sea fork: the first
\* block, and the blocks around the first adjustment.
PrepareNumbers == {1, 11, 12, 13, 14}

\* Prepare is called before the Sea fork on a fresh header of block
\* Len(ch), on the chain ch whose tip is given (N, P) = (n, p).  From block
\* 13 on the header is timed t seconds after the header twelve blocks
\* earlier, before that t seconds after its parent.
CallPrepare(ch, t, n, p) ==
    /\ call = NoCall
    /\ ~IsSeafork(config, Len(ch))
    /\ Len(ch) >= 13 => t >= 12
    /\ LET num == Len(ch)
           tip == [ch[num] EXCEPT !.N = n, !.P = p]
           c == [ch EXCEPT ![num] = tip]
           from == IF num >= 13 THEN ch[num - 11].Time ELSE tip.Time
           header == Template(tip, from + t - tip.Time)
       IN  call' = [fn |-> "Prepare",
                    args |-> <<num, t, n, p, tip.NP, from>>,
                    ret |-> Prepare(config, c, header)]
    /\ UNCHANGED nonCallVars

\* C32: before the Sea fork every block with number <= 12 is stamped
\* (N, P) = (params.N, params.P), alpha = 120 and NP = parent.NP +
\* params.N^3 * params.P^6, whatever the parent's (N, P) and the timestamps;
\* from block 13 on alpha is the time since the header twelve blocks earlier
\* (which Prepare fetches exactly then) and (N, P) follow calcnp on it.
C32_FirstTwelve ==
    /\ call.fn = "Prepare" =>
           /\ call.ret[1] = Nil
           /\ call.args[1] <= 12 =>
                  /\ call.ret[2].N = ParamsN /\ call.ret[2].P = ParamsP
                  /\ call.ret[2].Alpha = 120
                  /\ call.ret[2].NP
                         = BigAdd(call.args[5], npExact(ParamsN, ParamsP))
           /\ call.args[1] >= 13 =>
                  /\ call.ret[2].Alpha = call.args[2]
                  /\ call.ret[2].Alpha = call.ret[2].Time - call.args[6]
                  /\ call.args[4] < 256 =>
                         <<call.ret[2].N, call.ret[2].P>>
                             = LakeTable(call.args[2], call.args[3], call.args[4])
    /\ \A k \in 2..Len(chain) :
           (~IsSeafork(config, chain[k].Number) /\ chain[k].Number <= 12)
               => /\ chain[k].N = ParamsN /\ chain[k].P = ParamsP
                  /\ chain[k].Alpha = 120

\* Prepare stamped block 12 with the initial values on a parent above the
\* floors and a fast timespan, and block 13 with p raised by one.
C32_Witness ==
    /\ call.fn = "Prepare" /\ call.args[2] = 100
    /\ \/ /\ call.args[1] = 12 /\ call.args[3] > ParamsN /\ call.args[4] > ParamsP
          /\ call.ret[2].N = ParamsN /\ call.ret[2].P = ParamsP
       \/ /\ call.args[1] = 13 /\ call.args[4] < 256
          /\ call.ret[2].P = call.args[4] + 1

\* Prepare returned success on the header of the call.
PreparedCall == call.fn = "Prepare" /\ call.ret[1] = Nil

\* VerifySeal selects for h the regime Prepare selected from the number of
\* its parent, and its recomputation from h's own Alpha, NN and PP gives the
\* N and P that h carries.
SealAgrees(cfg, h, parentNumber) ==
    /\ IsSeafork(cfg, h.Number) = IsSeafork(cfg, parentNumber + 1)
    /\ SelfNP(cfg, h) = <<h.N, h.P>>

\* C39: on a chain whose genesis carries the floors, for every header
\* stamped by a successful Prepare the regime VerifySeal selects from the
\* header's number is the one Prepare selected from the parent's number plus
\* one, and VerifySeal's recomputation from the header's own Alpha, NN and PP
\* returns the stamped (N, P).
C39_SealAgrees ==
    PreparedCall => SealAgrees(config, call.ret[2], call.args[1] - 1)

\* The agreement holds from block 13 on, and for the first twelve blocks
\* when the parent carries the floors.
SealAgreesOnFloors ==
    (/\ PreparedCall
     /\ \/ call.args[1] >= 13
        \/ call.args[3] = ParamsN /\ call.args[4] = ParamsP)
        => SealAgrees(config, call.ret[2], call.args[1] - 1)

\* The agreement holds on a chain that only the node's own miner extended,
\* in both regimes.
SealAgreesOnMined ==
    (hpc = "prepared") => SealAgrees(config, hdr, HdrParent.Number)

\* calcnp was called with p < 256 and a timespan of 102..107, the branch that
\* raises n.
RaisesN ==
    /\ CalcnpBelowCap
    /\ call.args[1] >= 102 /\ call.args[1] < 108

\* A call of calcnp that takes the branch raising n and returns an n that is
\* not raised: the closing clause lowered it again.
RedecrementCall ==
    \E t \in Timespans : \E n \in NValues : \E p \in PValues :
        /\ t >= 102 /\ t < 108 /\ p < 256
        /\ CallCalcnp(t, n, p)
        /\ call'.ret[1] <= n

\* C34 as stated: a call of calcnp is possible in which the closing clause
\* (p <= params.P, n > params.N, timespan > 360) lowers the n that the
\* timespan < 108 branch has just raised.
C34_CanRedecrement == call = NoCall => ENABLED RedecrementCall

\* C34: no call of calcnp lowers an n it has just raised: the branch that
\* raises n returns (n + 1, p) (it needs a timespan below 108, the closing
\* clause one above 360).  The closing clause acts only after the
\* timespan > 138 branch, with p at the floor or lowered to it and n above
\* the floor, and then returns (n - 1, params.P).
C34_NoRedecrement ==
    /\ RaisesN => call.ret = <<call.args[2] + 1, call.args[3]>>
    /\ (CalcnpBelowCap /\ call.args[1] > 360 /\ call.args[2] > ParamsN
        /\ call.args[3] <= ParamsP + 1)
           => call.ret = <<call.args[2] - 1, ParamsP>>
    /\ (CalcnpBelowCap /\ call.ret[1] < call.args[2])
           => call.args[1] > 132

\* calcnp was called with p at the floor and a timespan of 102..107, and
\* returned n raised by one.
C34_Witness ==
    /\ RaisesN /\ call.args[3] = ParamsP
    /\ call.ret = <<call.args[2] + 1, ParamsP>>

\* The chain configurations CalcDifficulty is called with: those of the
\* chains, and Byzantium configured without Homestead.
DifficultyConfigs ==
    Configs \cup {[HomesteadBlock |-> NoFork, ByzantiumBlock |-> 0,
                   SeaForkBlock |-> NoFork]}

\* The parents CalcDifficulty is called with: at the start of the chain and
\* around the first block numbers with an ice-age term, with and without
\* uncles, at the minimum difficulty and above it.
DifficultyParents ==
    {[Genesis EXCEPT !.Number = num, !.Time = 1000, !.Difficulty = d,
                     !.UncleHash = u] :
        num \in {0, 1, 2 * expDiffPeriod - 2, 2 * expDiffPeriod - 1,
                 big2999999 + 2 * expDiffPeriod - 1, big2999999 + 2 * expDiffPeriod},
        d \in {MinimumDifficulty, 1000 * DifficultyBoundDivisor, 10000019},
        u \in {"EmptyUncleHash", "uncles"}}

\* The seconds between parent and block.
DifficultyGaps == {1, 8, 9, 10, 12, 13, 20, 900, 909, 1010, 2000}

\* CalcDifficulty is called for a block dt seconds after parent.
CallCalcDifficulty(cfg, dt, parent) ==
    /\ call = NoCall
    /\ call' = [fn |-> "CalcDifficulty", args |-> <<cfg, dt, parent>>,
                ret |-> CalcDifficulty(cfg, parent.Time + dt, parent)]
    /\ UNCHANGED nonCallVars

\* The rule named for the call: Byzantium when the next block is Byzantium,
\* else Homestead when it is Homestead, else Frontier.
RuleNamed ==
    IF IsByzantium(call.args[1], call.args[3].Number + 1) THEN "Byzantium"
    ELSE IF IsHomestead(call.args[1], call.args[3].Number + 1) THEN "Homestead"
    ELSE "Frontier"

\* The multiplicative factor of the Byzantium and Homestead rules, floored
\* at -99.
FactorNamed ==
    LET q == IF RuleNamed = "Byzantium" THEN call.args[2] \div 9
             ELSE call.args[2] \div 10
        f == IF RuleNamed = "Byzantium" /\ call.args[3].UncleHash # "EmptyUncleHash"
             THEN 2 - q ELSE 1 - q
    IN  IF f < -99 THEN -99 ELSE f

\* The ice-age term of the rule named.
IceAgeNamed ==
    LET num == call.args[3].Number
        period == IF RuleNamed = "Byzantium"
                  THEN (IF num >= 2999999 THEN (num - 2999999) \div 100000 ELSE 0)
                  ELSE (num + 1) \div 100000
    IN  IF period > 1 THEN Pow2(period - 2) ELSE 0

\* The difficulty by the rule named.
DifficultyNamed ==
    LET d == call.args[3].Difficulty
        step == d \div DifficultyBoundDivisor
        moved == IF RuleNamed = "Frontier"
                 THEN (IF call.args[2] < DurationLimit THEN d + step ELSE d - step)
                 ELSE d + step * FactorNamed
        floored == IF moved < MinimumDifficulty THEN MinimumDifficulty ELSE moved
    IN  floored + IceAgeNamed

\* C35: CalcDifficulty gives the difficulty of the Byzantium rule when the
\* next block number is Byzantium, else of the Homestead rule when it is
\* Homestead, else of the Frontier rule, with the factor floored at -99, and
\* under every rule the result is at least MinimumDifficulty, hence positive.
C35_RuleAndFloor ==
    call.fn = "CalcDifficulty" =>
        /\ call.ret = DifficultyNamed
        /\ call.ret >= MinimumDifficulty /\ call.ret > 0

\* CalcDifficulty was called where Byzantium and Homestead are both active
\* and give different results, and where the factor is held at -99.
C35_Witness ==
    /\ call.fn = "CalcDifficulty" /\ RuleNamed = "Byzantium"
    /\ IsHomestead(call.args[1], call.args[3].Number + 1)
    /\ call.args[2] \div 9 # call.args[2] \div 10
    /\ FactorNamed = -99 /\ 1 - (call.args[2] \div 9) < -99
    /\ call.ret > MinimumDifficulty

\* The engines VerifySeal is called on: normal, and the fake modes with a
\* block number at which the seal check is to fail.
SealEngines ==
    {NormalEngine} \cup
    {[PowMode |-> m, fakeFail |-> f] : m \in {ModeFake, ModeFullFake}, f \in {1, 2}}

\* What is wrong with the headers VerifySeal is called on.
SealDevs == {"none", "diffZero", "fuzzy", "target", "N", "forgeNN"}

\* The headers: a child of the tip with up to two of these deviations.
SealHeaders ==
    {Deviate(config, Deviate(config, Mined(config, chain, 10), Tip, d), Tip, e) :
        d, e \in SealDevs}

CallVerifySeal(eng, h) ==
    /\ call = NoCall
    /\ call' = [fn |-> "VerifySeal", args |-> <<eng, h>>,
                ret |-> VerifySeal(eng, config, h)]
    /\ UNCHANGED nonCallVars

\* C26: with a normal engine VerifySeal returns errInvalidDifficulty for a
\* difficulty that is not positive; else errInvalidMixDigest when the fuzzy
\* hash is not the one recomputed; else errInvalidMixDigest when the hash
\* misses the target; else errInvalidPoW when (N, P) is not what the regime
\* of the header's number recomputes; else nil.  With an engine in a fake
\* mode it returns errInvalidPoW when the header's number is fakeFail and
\* nil otherwise.
C26_SealChecks ==
    call.fn = "VerifySeal" =>
        LET eng == call.args[1]
            h == call.args[2]
        IN  IF eng.PowMode \in {ModeFake, ModeFullFake}
            THEN call.ret = IF h.Number = eng.fakeFail THEN errInvalidPoW ELSE Nil
            ELSE /\ h.Difficulty <= 0 => call.ret = errInvalidDifficulty
                 /\ (h.Difficulty > 0 /\ (~h.FuzzyOK \/ ~h.TargetOK))
                        => call.ret = errInvalidMixDigest
                 /\ (h.Difficulty > 0 /\ h.FuzzyOK /\ h.TargetOK) =>
                        call.ret = IF <<h.N, h.P>> # SelfNP(config, h)
                                   THEN errInvalidPoW ELSE Nil

\* A header that misses the target and carries a wrong N was refused with
\* errInvalidMixDigest by a normal engine.
C26_Witness ==
    /\ call.fn = "VerifySeal" /\ call.args[1] = NormalEngine
    /\ ~call.args[2].TargetOK /\ call.args[2].Difficulty > 0
    /\ <<call.args[2].N, call.args[2].P>> # SelfNP(config, call.args[2])
    /\ call.ret = errInvalidMixDigest

\* The engines the constructors of package ethash and clique return: New
\* keeps the PowMode of the Config it is given, NewFaker and NewTester set
\* theirs, NewShared wraps the shared engine.
EthashNew(ecfg) == [kind |-> "ethash", PowMode |-> ecfg.PowMode, shared |-> FALSE]
NewFaker == [kind |-> "ethash", PowMode |-> ModeFake, shared |-> FALSE]
NewTester == [kind |-> "ethash", PowMode |-> ModeTest, shared |-> FALSE]
NewShared == [kind |-> "ethash", PowMode |-> ModeNormal, shared |-> TRUE]
CliqueNew == [kind |-> "clique"]

\* Variant of CreateConsensusEngine: the engine is made with the PowMode of
\* the node configuration.
CreateConsensusEngineModeKept(ecfg, clique) ==
    IF clique THEN CliqueNew
    ELSE CASE ecfg.PowMode = ModeFake -> NewFaker
           [] ecfg.PowMode = ModeTest -> NewTester
           [] ecfg.PowMode = ModeShared -> NewShared
           [] OTHER -> EthashNew([PowMode |-> ecfg.PowMode])

\* CreateConsensusEngine: ecfg is the ethash.Config of the node, clique says
\* that chainConfig.Clique is set.  The Config handed to ethash.New names
\* the cache and dataset fields only: its PowMode is the zero value,
\* ModeNormal.
CreateConsensusEngine(ecfg, clique) ==
    IF clique THEN CliqueNew
    ELSE CASE ecfg.PowMode = ModeFake -> NewFaker
           [] ecfg.PowMode = ModeTest -> NewTester
           [] ecfg.PowMode = ModeShared -> NewShared
           [] OTHER -> EthashNew([PowMode |-> ModeNormal])

\* The PowMode values of a node configuration: the five named modes and a
\* value that names none.
PowModes == {ModeNormal, ModeShared, ModeTest, ModeFake, ModeFullFake, "Mode(5)"}

CallCreateConsensusEngine(m, clique) ==
    /\ call = NoCall
    /\ call' = [fn |-> "CreateConsensusEngine", args |-> <<m, config, clique>>,
                ret |-> CreateConsensusEngine([PowMode |-> m], clique)]
    /\ UNCHANGED nonCallVars

\* C25: whatever the chain configuration and the PowMode of the node
\* configuration, the engine CreateConsensusEngine returns is not an ethash
\* engine in ModeFullFake.
C25_NoFullFakeEngine ==
    call.fn = "CreateConsensusEngine" =>
        (call.ret.kind = "ethash" => call.ret.PowMode # ModeFullFake)

\* A node configured with ModeFullFake on a proof-of-work chain got an
\* ethash engine in ModeNormal.
C25_Witness ==
    /\ call.fn = "CreateConsensusEngine"
    /\ call.args[1] = ModeFullFake /\ ~call.args[3]
    /\ call.ret = [kind |-> "ethash", PowMode |-> ModeNormal, shared |-> FALSE]

InitCalls ==
    /\ engine = NormalEngine /\ config \in Configs /\ now = NowUnix
    /\ chain = <<Genesis>>
    /\ InitBatchVars /\ InitPipe /\ InitHdr /\ InitNoReward /\ call = NoCall
    /\ InitNoUncles

NextCalls ==
    \/ \E n \in ScheduleNumbers : CallComputerRewardBase(n)
    \/ \E g \in ParentGasLimits : \E h \in HeaderGasLimits(g) : CallVerifyGas(g, h)
    \/ \E t \in Timespans : \E n \in NValues : \E p \in PValues :
           CallCalcnp(t, n, p) \/ CallCalcnpsea(t, n, p)
    \/ /\ call = NoCall
       /\ \E t \in BlockSpans : \E n \in NValues : \E p \in PValues :
              \/ CallCalcDifficultyByLake(t, n, p)
              \/ \E num \in {1, 2} : CallCalcDifficultyBySea(num, t, n, p)
    \/ /\ call = NoCall
       /\ \E num \in PrepareNumbers : \E ch \in {SecondsChain(config, num - 1)} :
              \E t \in BlockSpans : \E n \in {ParamsN, 7} :
                  \E p \in {ParamsP, ParamsP + 1, 256} : CallPrepare(ch, t, n, p)
    \/ /\ call = NoCall
       /\ \E cfg \in DifficultyConfigs : \E dt \in DifficultyGaps :
              \E parent \in DifficultyParents : CallCalcDifficulty(cfg, dt, parent)
    \/ \E dt \in Gaps : Mine(dt)
    \/ \E m \in PowModes : \E clique \in BOOLEAN : CallCreateConsensusEngine(m, clique)
    \/ /\ call = NoCall
       /\ \E eng \in SealEngines : \E h \in SealHeaders : CallVerifySeal(eng, h)

SpecCalls == InitCalls /\ [][NextCalls]_vars

(***************************************************************************)
(* Further properties of header verification.                              *)
(***************************************************************************)
\* hdr is a header of the chain.
Known == GetHeader(chain, Hash(hdr), hdr.Number) # NoHeader

\* C13: VerifyHeader in normal mode returns success for a header the chain
\* holds, whatever its parent or fields; for a header it does not hold whose
\* parent it does not hold either it returns ErrUnknownAncestor; otherwise
\* it returns what verifyHeader returns against the parent.
C13_ShortCircuit ==
    hpc = "verified" =>
        /\ Known => verr = Nil
        /\ (~Known /\ HdrParent = NoHeader) => verr = ErrUnknownAncestor
        /\ (~Known /\ HdrParent # NoHeader) =>
               verr = verifyHeader(engine, config, now, hdr, HdrParent,
                                   FALSE, vseal)

\* VerifyHeader returned success for the genesis header, which the chain
\* holds and whose parent it does not.
C13_Witness ==
    /\ hpc = "verified" /\ Known /\ HdrParent = NoHeader /\ verr = Nil

\* VerifyHeader ran the checks of verifyHeader on hdr against its parent.
Checked == hpc = "verified" /\ ~Known /\ HdrParent # NoHeader

\* The invariants of a header, each with the error its violation yields.
BadNumber == <<hdr.Number # HdrParent.Number + 1, ErrInvalidNumber>>
BadTime == <<hdr.Time <= HdrParent.Time, errZeroBlockTime>>
BadFuture == <<hdr.Time > now + allowedFutureBlockTime, ErrFutureBlock>>
BadGasCap == <<BigCmp(hdr.GasLimit, GasCap) > 0, errGasLimitCap>>
BadGasUsed == <<BigCmp(hdr.GasUsed, hdr.GasLimit) > 0, errGasUsed>>
BadGasBounds ==
    <<\/ BigCmp(hdr.GasLimit, BigFromNat(MinGasLimit)) < 0
      \/ BigCmp(IF BigCmp(hdr.GasLimit, HdrParent.GasLimit) >= 0
                THEN BigSub(hdr.GasLimit, HdrParent.GasLimit)
                ELSE BigSub(HdrParent.GasLimit, hdr.GasLimit),
                BigDivSmall(HdrParent.GasLimit, GasLimitBoundDivisor)) >= 0,
      errGasLimitBounds>>
BadExtra == <<hdr.ExtraLen > MaximumExtraDataSize, errExtraTooLong>>
BadDifficulty ==
    <<hdr.Difficulty # CalcDifficulty(config, hdr.Time, HdrParent),
      errDifficultyMismatch>>
BadSeal ==
    <<vseal /\ VerifySeal(engine, config, hdr) # Nil,
      VerifySeal(engine, config, hdr)>>
BadDAO == <<~hdr.DAOExtraOK, ErrBadDAOExtra>>
BadFork == <<~hdr.ForkHashOK, ErrBadForkHash>>

\* The error of the first violated invariant of a list, Nil when none is.
RECURSIVE FirstError(_)
FirstError(list) ==
    IF list = <<>> THEN Nil
    ELSE IF list[1][1] THEN list[1][2]
    ELSE FirstError(Tail(list))

\* The number of violated invariants of a list.
RECURSIVE NumViolated(_)
NumViolated(list) ==
    IF list = <<>> THEN 0
    ELSE (IF list[1][1] THEN 1 ELSE 0) + NumViolated(Tail(list))

\* C14 as stated: the error reported is that of the first violated
\* invariant in the order number, time after the parent's, future bound,
\* gas limit, gas used, extra-data size, difficulty, seal.
C14_ListedOrder ==
    Checked =>
        verr = FirstError(<<BadNumber, BadTime, BadFuture, BadGasCap,
                            BadGasBounds, BadGasUsed, BadExtra, BadDifficulty,
                            BadSeal, BadDAO, BadFork>>)

\* C14 amended: the error reported is that of the first violated invariant
\* in the order extra-data size, future bound, time after the parent's,
\* difficulty, gas limit cap, gas used, gas limit bounds, number, seal.
C14_CodeOrder ==
    Checked =>
        verr = FirstError(<<BadExtra, BadFuture, BadTime, BadDifficulty,
                            BadGasCap, BadGasUsed, BadGasBounds, BadNumber,
                            BadSeal, BadDAO, BadFork>>)

\* The checks ran on a header with over-long extra-data and the time of its
\* parent, and the extra-data error was reported.
C14_Witness ==
    /\ Checked /\ BadExtra[1] /\ BadTime[1] /\ verr = errExtraTooLong
    /\ NumViolated(<<BadExtra, BadFuture, BadTime, BadDifficulty, BadGasCap,
                     BadGasUsed, BadGasBounds, BadNumber, BadSeal>>) >= 2

\* C17: a header that was not known and that verifyHeader accepted against
\* its parent has the parent's number plus one, a later time than the
\* parent, gas used within its gas limit, extra-data within the maximum
\* size and the difficulty CalcDifficulty gives for its time and parent; a
\* header violating one of these is rejected.
C17_AcceptedIsValid ==
    /\ Accepted =>
           /\ hdr.Number = HdrParent.Number + 1
           /\ hdr.Time > HdrParent.Time
           /\ BigCmp(hdr.GasUsed, hdr.GasLimit) <= 0
           /\ hdr.ExtraLen <= MaximumExtraDataSize
           /\ hdr.Difficulty = CalcDifficulty(config, hdr.Time, HdrParent)
    /\ (/\ Checked
        /\ \/ BadNumber[1] \/ BadTime[1] \/ BadGasUsed[1] \/ BadExtra[1]
           \/ BadDifficulty[1]) => verr # Nil

\* A header on the second block of the chain was verified with its seal and
\* accepted.
C17_Witness == Accepted /\ vseal /\ hdr.Number = 2 /\ HdrParent # NoHeader

\* Prepare was called on a header whose parent the chain holds and whose
\* time is not after the parent's.
PreparedNotAfterParent ==
    /\ perr # Unset
    /\ GetHeader(chain, hdr0.ParentHash, hdr0.Number - 1) # NoHeader
    /\ hdr0.Time <= GetHeader(chain, hdr0.ParentHash, hdr0.Number - 1).Time

\* C15 as stated: a header whose time is not after its parent's is rejected
\* with ErrUnknownAncestor by header verification and by Prepare.
C15_UnknownAncestorForTime ==
    /\ (Checked /\ BadTime[1]) => verr = ErrUnknownAncestor
    /\ PreparedNotAfterParent => perr = ErrUnknownAncestor

\* C15 amended: such a header is rejected by both; Prepare returns
\* ErrUnknownAncestor, header verification returns errZeroBlockTime unless it
\* already failed on the extra-data size or the future bound.
C15_TimeNotAfterParent ==
    /\ (Checked /\ BadTime[1]) =>
           /\ verr # Nil
           /\ (~BadExtra[1] /\ ~BadFuture[1]) => verr = errZeroBlockTime
    /\ PreparedNotAfterParent => perr = ErrUnknownAncestor

\* A header with the time of its parent was refused by Prepare with
\* ErrUnknownAncestor and then by VerifyHeader with errZeroBlockTime.
C15_Witness ==
    /\ Checked /\ BadTime[1] /\ verr = errZeroBlockTime
    /\ PreparedNotAfterParent /\ perr = ErrUnknownAncestor

\* The parent the chain held for the header Prepare was called on.
Hdr0Parent == GetHeader(chain, hdr0.ParentHash, hdr0.Number - 1)

\* <<n, p, alpha, NP>> of the regime selected for that header.
Regime0 ==
    IF IsSeafork(config, hdr0.Number)
    THEN CalcDifficultyBySea(hdr0, Hdr0Parent)
    ELSE CalcDifficultyByLake(hdr0, Hdr0Parent,
             IF hdr0.Number >= 13 THEN GetHeaderByNumber(chain, hdr0.Number - 12)
             ELSE NoHeader)

\* C23: Prepare returns an error and leaves the header as it was when the
\* chain does not hold the parent or the parent's time is not before the
\* header's; otherwise it succeeds, and the header then differs from what
\* it was only in N, P, Alpha and NP, which are those of the regime selected
\* by the header's number, in Difficulty, which is CalcDifficulty for its
\* time and parent, and in NN and PP, which are the parent's N and P.
C23_PrepareFrame ==
    perr # Unset =>
        IF Hdr0Parent = NoHeader \/ Hdr0Parent.Time >= hdr0.Time
        THEN perr # Nil /\ hdr = hdr0
        ELSE /\ perr = Nil
             /\ hdr = [hdr0 EXCEPT
                           !.N = Regime0[1], !.P = Regime0[2],
                           !.Alpha = Regime0[3], !.NP = Regime0[4],
                           !.NN = Hdr0Parent.N, !.PP = Hdr0Parent.P,
                           !.Difficulty =
                               CalcDifficulty(config, hdr0.Time, Hdr0Parent)]

\* Prepare refused a header dated before its parent and left it untouched,
\* although stamping would have changed it.
C23_Witness ==
    /\ perr = ErrUnknownAncestor /\ Hdr0Parent # NoHeader
    /\ Hdr0Parent.Time > hdr0.Time /\ hdr = hdr0
    /\ hdr0.Difficulty # CalcDifficulty(config, hdr0.Time, Hdr0Parent)

(***************************************************************************)
(* Blocks with uncles.  The node holds a chain of UncleBase or more blocks *)
(* whose block 2 lists one uncle; blocks are proposed on its tip, checked  *)
(* by VerifyUncles and imported when it returns nil.                       *)
(***************************************************************************)
\* Number of the last block of the shorter start chain, and the number of
\* blocks proposed in a behaviour.
UncleBase == 8
MaxUncleBlocks == 1

\* header.UncleHash of a block with and without uncles.
UncleHashOf(us) == IF us = <<>> THEN "EmptyUncleHash" ELSE "UnclesHash"

\* A header mined on the last header of ch by another miner.
SideOn(cfg, ch) == [Mined(cfg, ch, 10) EXCEPT !.Coinbase = "side"]

\* The uncles of block n of the start chain.
StartUncles(cfg, n) == IF n = 2 THEN <<SideOn(cfg, <<Genesis>>)>> ELSE <<>>

\* The headers of blocks 0..n of the start chain.
RECURSIVE StartChain(_, _)
StartChain(cfg, n) ==
    IF n = 0 THEN <<Genesis>>
    ELSE LET c == CHOOSE r \in {StartChain(cfg, n - 1)} : TRUE
         IN  Append(c, [Mined(cfg, c, 10) EXCEPT
                           !.UncleHash = UncleHashOf(StartUncles(cfg, n))])

\* The header of the block proposed on the tip with the uncles us.
BlockHeader(us) ==
    [Mined(config, chain, 10) EXCEPT !.UncleHash = UncleHashOf(us)]

\* The ancestor of the proposed block g generations up (1: its parent).
Ancestor(g) == chain[Len(chain) - g + 1]

\* A header mined by another miner on the ancestor g generations up.
SideUncle(g) == SideOn(config, SubSeq(chain, 1, Len(chain) - g + 1))

\* A header whose parent the chain does not hold.
OrphanUncle == [SideUncle(2) EXCEPT !.ParentHash = <<"unknown">>]

\* A header mined on the proposed block itself.
ChildUncle == SideOn(config, Append(chain, BlockHeader(<<Genesis>>)))

\* A valid header on the ancestor two generations up whose time is beyond
\* the future bound of the node's clock.
FutureUncle ==
    [Mined(config, SubSeq(chain, 1, Len(chain) - 1),
           now + allowedFutureBlockTime + 1 - Ancestor(2).Time)
        EXCEPT !.Coinbase = "side"]

\* The deviations tried on an uncle.
UncleDevs ==
    {"N", "number", "timeEq", "difficulty", "gasUsed", "gasLimitHigh",
     "gasLimitLow", "gasCap", "extra", "fuzzy", "target", "dao", "fork"}

\* The uncles the blocks of the chain list.
Referenced == UNION {{cuncles[i][j] : j \in 1..Len(cuncles[i])} : i \in 1..Len(chain)}

\* The uncle lists a proposed block carries, from the side headers s (s[g]
\* is mined on the ancestor g generations up) and the orphan header o.
UncleListsOf(s, o) ==
    {<<>>}
    \cup {<<s[g]>> : g \in {1, 2, 7, 8}}
    \cup {<<Ancestor(g)>> : g \in {2, 7, 8}}
    \cup {<<BlockHeader(<<Genesis>>)>>, <<o>>, <<ChildUncle>>}
    \cup {<<u>> : u \in Referenced}
    \cup {<<s[g], s[k]>> : g, k \in {2, 7}}
    \cup {<<s[2], Ancestor(3)>>}
    \cup {[i \in 1..k |-> s[i + 1]] : k \in {maxUncles, maxUncles + 1}}
    \cup {[i \in 1..(maxUncles + 1) |-> o]}
    \cup {<<Deviate(config, s[2], Ancestor(2), d)>> : d \in UncleDevs}
    \cup {<<FutureUncle>>}

UncleLists ==
    UNION {UncleListsOf(s, o) : s \in {[g \in 1..UncleBase |-> SideUncle(g)]},
                                o \in {OrphanUncle}}

\* A block arrives on the tip of the chain.
ProposeBlock(us) ==
    /\ upc = "idle" /\ ucount < MaxUncleBlocks
    /\ ublock' = [header |-> BlockHeader(us), uncles |-> us]
    /\ upc' = "proposed" /\ ucount' = ucount + 1
    /\ UNCHANGED <<cuncles, uerr>>
    /\ UNCHANGED <<call, envVars, batchVars, pipeVars, hdrVars, rewardVars>>

\* VerifyUncles is called on the block.
DoVerifyUncles ==
    /\ upc = "proposed"
    /\ uerr' = VerifyUncles(engine, config, now, chain, cuncles, ublock)
    /\ upc' = "verified"
    /\ UNCHANGED <<cuncles, ublock, ucount>>
    /\ UNCHANGED <<call, envVars, batchVars, pipeVars, hdrVars, rewardVars>>

\* The block passed: it becomes the tip of the chain.
ImportBlock ==
    /\ upc = "verified" /\ uerr = Nil
    /\ chain' = Append(chain, ublock.header)
    /\ cuncles' = Append(cuncles, ublock.uncles)
    /\ ublock' = NoBlock /\ uerr' = Unset /\ upc' = "idle"
    /\ UNCHANGED <<engine, config, now, ucount>>
    /\ UNCHANGED <<call, batchVars, pipeVars, hdrVars, rewardVars>>

\* The block was rejected: it is dropped.
DropBlock ==
    /\ upc = "verified" /\ uerr # Nil
    /\ ublock' = NoBlock /\ uerr' = Unset /\ upc' = "idle"
    /\ UNCHANGED <<cuncles, ucount>>
    /\ UNCHANGED <<call, envVars, batchVars, pipeVars, hdrVars, rewardVars>>

InitUncles ==
    /\ engine \in {NormalEngine, FullFakeEngine}
    /\ config \in Configs
    /\ now = NowUnix
    /\ \E n \in {UncleBase, UncleBase + 1} :
          /\ chain = StartChain(config, n)
          /\ cuncles = [k \in 1..(n + 1) |-> StartUncles(config, k - 1)]
    /\ ublock = NoBlock /\ uerr = Unset /\ upc = "idle" /\ ucount = 0
    /\ InitBatchVars /\ InitPipe /\ InitHdr /\ InitNoReward /\ call = NoCall

NextUncles ==
    \/ /\ upc = "idle" /\ ucount < MaxUncleBlocks
       /\ \E us \in UncleLists : ProposeBlock(us)
    \/ DoVerifyUncles
    \/ ImportBlock
    \/ DropBlock

SpecUncles == InitUncles /\ [][NextUncles]_vars


(***************************************************************************)
(* Properties of VerifyUncles.                                             *)
(***************************************************************************)
\* VerifyUncles ran its checks on the first uncle of the block.
Examined ==
    /\ upc = "verified" /\ engine.PowMode # ModeFullFake
    /\ Len(ublock.uncles) \in 1..maxUncles

FirstUncle == ublock.uncles[1]

\* The generation of the ancestor of the block with that hash (1: its
\* parent), 0 when no ancestor of the block has it.
Generation(hash) ==
    IF \E g \in 1..Len(chain) : Hash(Ancestor(g)) = hash
    THEN CHOOSE g \in 1..Len(chain) : Hash(Ancestor(g)) = hash
    ELSE 0

\* The uncles listed by the seven nearest ancestors of the block.
ReferencedNear ==
    UNION {{cuncles[i][j] : j \in 1..Len(cuncles[i])} :
              i \in {k \in 1..Len(chain) : k > Len(chain) - 7}}

\* The first uncle is no ancestor of the block, not the block itself, and
\* no block of the chain lists it.
FreshUncle ==
    /\ Generation(Hash(FirstUncle)) = 0
    /\ FirstUncle # ublock.header
    /\ FirstUncle \notin Referenced

\* C19: for an uncle that is neither a duplicate nor an ancestor,
\* VerifyUncles reports no ancestry error when the uncle's parent is the
\* ancestor seven generations up (a block with this valid uncle alone is
\* accepted), and it returns errDanglingUncle when the uncle's parent is an
\* ancestor eight or more generations up, is no ancestor of the block at
\* all, or is the parent of the block.
C19_UncleWindow ==
    (Examined /\ FreshUncle) =>
        LET g == Generation(FirstUncle.ParentHash)
        IN  /\ (g = 7 /\ Len(ublock.uncles) = 1) =>
                   uerr = verifyHeader(engine, config, now, FirstUncle,
                                       Ancestor(7), TRUE, TRUE)
            /\ (g = 7 /\ ublock.uncles = <<SideUncle(7)>>) => uerr = Nil
            /\ (g >= 8 \/ g = 0 \/ g = 1) => uerr = errDanglingUncle

\* The first uncle of the verified block is already known to the uncles
\* set: one of the seven nearest ancestors lists it, or it is the block.
AlreadySeen == FirstUncle \in ReferencedNear \/ FirstUncle = ublock.header

\* VerifyUncles accepts the block when it lists its first uncle alone.
FirstAlonePasses ==
    VerifyUncles(engine, config, now, chain, cuncles,
                 [ublock EXCEPT !.uncles = <<FirstUncle>>]) = Nil

\* Every block of the chain passes VerifyUncles on the blocks before it.
ChainVerified ==
    \A k \in 2..Len(chain) :
        VerifyUncles(engine, config, now, SubSeq(chain, 1, k - 1),
                     SubSeq(cuncles, 1, k - 1),
                     [header |-> chain[k], uncles |-> cuncles[k]]) = Nil

\* The places <<block, position>> of the chain where an uncle is listed.
UnclePlaces == {<<i, j>> \in (1..Len(chain)) \X (1..maxUncles) : j <= Len(cuncles[i])}

\* C20: outside full-fake mode VerifyUncles returns errDuplicateUncle for an
\* uncle that one of the seven nearest ancestors lists, that is the block
\* itself, or that repeats an accepted uncle earlier in the list, and
\* errUncleIsAncestor for an uncle, not such a duplicate, that is one of
\* the gathered ancestors;
\* and in a chain whose blocks all passed VerifyUncles no header is listed
\* as an uncle at two places.
C20_NoUncleTwice ==
    /\ Examined =>
           /\ AlreadySeen => uerr = errDuplicateUncle
           /\ (~AlreadySeen /\ Generation(Hash(FirstUncle)) \in 1..7) =>
                  uerr = errUncleIsAncestor
           /\ (/\ Len(ublock.uncles) >= 2 /\ ublock.uncles[2] = FirstUncle
               /\ FirstAlonePasses) => uerr = errDuplicateUncle
    /\ (engine.PowMode # ModeFullFake /\ ChainVerified) =>
           \A x, y \in UnclePlaces :
               cuncles[x[1]][x[2]] = cuncles[y[1]][y[2]] => x = y

\* A block that repeats a valid uncle was rejected as a duplicate, on a
\* chain whose blocks, one of them listing an uncle, had all passed.
C20_Witness ==
    /\ Examined /\ Len(ublock.uncles) = 2 /\ ublock.uncles[2] = FirstUncle
    /\ FirstAlonePasses /\ uerr = errDuplicateUncle
    /\ ChainVerified


UncleOnAncestor ==
    /\ Examined /\ FreshUncle /\ Len(ublock.uncles) = 1
    /\ Generation(FirstUncle.ParentHash) \in 2..7

UncleParent == Ancestor(Generation(FirstUncle.ParentHash))

\* The uncle breaks a rule of header verification against its parent.
UncleBreaksRule ==
    \/ FirstUncle.Time <= UncleParent.Time
    \/ FirstUncle.Difficulty # CalcDifficulty(config, FirstUncle.Time, UncleParent)
    \/ BigCmp(FirstUncle.GasLimit, GasCap) > 0
    \/ BigCmp(FirstUncle.GasUsed, FirstUncle.GasLimit) > 0
    \/ BigCmp(BigAbsDiff(FirstUncle.GasLimit, UncleParent.GasLimit),
              BigDivSmall(UncleParent.GasLimit, GasLimitBoundDivisor)) >= 0
    \/ BigCmp(FirstUncle.GasLimit, BigFromNat(MinGasLimit)) < 0
    \/ FirstUncle.Number # UncleParent.Number + 1
    \/ VerifySeal(engine, config, FirstUncle) # Nil

FakeHeaders ==
    {Deviate(config, Mined(config, chain, 10), Tip, d) :
        d \in {"none", "parent", "timeEq", "difficulty", "gasUsed", "number",
               "target", "future"}}

\* The uncle lists of the blocks VerifyUncles is called on.
FakeUncleLists(h) ==
    {<<>>, <<h>>, <<SideOn(config, <<Genesis>>)>>,
     <<Deviate(config, h, Tip, "parent")>>,
     [i \in 1..(maxUncles + 1) |-> Deviate(config, h, Tip, "parent")]}

\* The chains the calls are made on: the headers and the uncle lists.
FakeChains == {<<chain, cuncles>>, <<<<>>, <<>>>>}

CallVerifyHeader(h, seal, ch) ==
    /\ call = NoCall /\ bpc = "build" /\ headers = <<>>
    /\ call' = [fn |-> "VerifyHeader", args |-> <<h, seal, ch[1]>>,
                ret |-> VerifyHeader(engine, config, now, ch[1], h, seal)]
    /\ UNCHANGED nonCallVars

CallVerifyUncles(h, us, ch) ==
    /\ call = NoCall /\ bpc = "build" /\ headers = <<>>
    /\ call' = [fn |-> "VerifyUncles", args |-> <<h, us, ch[1]>>,
                ret |-> VerifyUncles(engine, config, now, ch[1], ch[2],
                                     [header |-> h, uncles |-> us])]
    /\ UNCHANGED nonCallVars

NextFake ==
    \/ call = NoCall /\ NextBatch
    \/ /\ call = NoCall /\ headers = <<>>
       /\ \E h \in FakeHeaders : \E seal \in BOOLEAN : \E ch \in FakeChains :
              CallVerifyHeader(h, seal, ch)
    \/ /\ call = NoCall /\ headers = <<>>
       /\ \E h \in FakeHeaders : \E us \in FakeUncleLists(h) :
              \E ch \in FakeChains : CallVerifyUncles(h, us, ch)

SpecFake == InitBatch /\ [][NextFake]_vars

\* C24: in ModeFullFake VerifyHeader and VerifyUncles return nil for every
\* header, block and chain, and VerifyHeaders returns with one nil in the
\* results channel for every header of the batch, no goroutine started; in
\* every mode VerifyHeaders on an empty batch returns with an empty results
\* channel, and nothing is put into it afterwards.
C24_FullFakeAccepts ==
    /\ (engine.PowMode = ModeFullFake /\ call.fn \in {"VerifyHeader", "VerifyUncles"})
           => call.ret = Nil
    /\ (bpc = "run" /\ engine.PowMode = ModeFullFake) =>
           /\ errorsOut = [k \in 1..Len(headers) |-> Nil]
           /\ wpc = <<>> /\ cpc = "none"
    /\ (bpc = "run" /\ Len(headers) = 0) =>
           /\ errorsOut = <<>>
           /\ wpc = <<>> /\ cpc = "none"

\* In full-fake mode a block with six uncles of unknown parents was
\* accepted on the empty chain.
C24_Witness ==
    /\ engine.PowMode = ModeFullFake /\ call.fn = "VerifyUncles"
    /\ Len(call.args[2]) > maxUncles /\ call.args[3] = <<>>
    /\ call.ret = Nil

(***************************************************************************)
(* The channels of VerifyHeaders.                                          *)
(***************************************************************************)
\* Every index of the batch has been sent to a worker.
AllSent == in = Len(headers)

\* The coordinator goroutine has returned.
Returned == cpc \in {"finished", "aborted"}

\* C36 as stated: the input channel is closed once every index has been
\* sent to a worker or the abort signal has been observed, so a worker that
\* finished its last header can stop before all results are emitted.
C36_ClosedWhenAllSent ==
    Piped => ((AllSent \/ cpc = "aborted") => inputsClosed)

\* C36: the input channel is closed exactly when the coordinator has
\* returned, after it emitted the last result or observed the abort signal;
\* once every index has been sent it only stops sending (its local inputs
\* is nil), and a worker stops only after all results were emitted or the
\* abort signal was observed.
C36_ClosedOnReturn ==
    Piped =>
        /\ inputsClosed <=> Returned
        /\ inputsNil <=> AllSent
        /\ cpc = "finished" => Len(errorsOut) = Len(headers)
        /\ \A w \in DOMAIN wpc :
               wpc[w] = "exit"
                   => cpc = "aborted" \/ Len(errorsOut) = Len(headers)

\* Every index was sent and verified, every worker waits for a further
\* index, results are still to be emitted and nobody aborted: the input
\* channel is not closed.
C36_Witness ==
    /\ Piped /\ AllSent /\ ~abort
    /\ \A w \in DOMAIN wpc : wpc[w] = "recv"
    /\ Len(errorsOut) < Len(headers)
    /\ ~inputsClosed


\* The workers that hold an index: received and not yet reported done.
Holding == {w \in DOMAIN wpc : wpc[w] \in {"verify", "send"}}

\* The indices held by workers, waiting in the done channel, and marked
\* checked by the coordinator.
HeldIndices == {windex[w] : w \in Holding}
DoneIndices == {done[i] : i \in 1..Len(done)}
CheckedIndices == {k - 1 : k \in {j \in 1..Len(checked) : checked[j]}}

\* Every index sent so far is in exactly one place, with exactly one worker
\* if it is held, and no index is there that was not sent.
EachIndexOnce ==
    /\ Cardinality(HeldIndices) = Cardinality(Holding)
    /\ Cardinality(DoneIndices) = Len(done)
    /\ HeldIndices \cap DoneIndices = {}
    /\ HeldIndices \cap CheckedIndices = {}
    /\ DoneIndices \cap CheckedIndices = {}
    /\ HeldIndices \cup DoneIndices \cup CheckedIndices = 0..(in - 1)
    /\ in <= Len(headers)

\* The results channel has room whenever the coordinator writes to it, and
\* never holds more than len(headers) results; nothing reads it here.
ResultsFit ==
    /\ Len(errorsOut) <= Len(headers)
    /\ (cpc = "emit" /\ NextReady) => Len(errorsOut) < Len(headers)
    /\ Len(errorsOut) \in {out, out + 1}

\* A step that advances in hands index in to one worker that was waiting,
\* and to no other.
HandsNext ==
    (Piped /\ in' # in) =>
        /\ in' = in + 1
        /\ \E w \in DOMAIN wpc :
               /\ wpc[w] = "recv" /\ wpc'[w] = "verify" /\ windex'[w] = in
               /\ \A v \in DOMAIN wpc \ {w} :
                      wpc'[v] = wpc[v] /\ windex'[v] = windex[v]

\* C37: in VerifyHeaders each index 0..len(headers)-1 is handed to exactly
\* one worker, at most once and in increasing order, and the coordinator
\* never blocks on the results channel: at most len(headers) results are
\* written to it, its capacity, although nothing reads it.
C37_IndicesAndResults ==
    /\ [](Piped => EachIndexOnce /\ ResultsFit)
    /\ [][HandsNext]_vars

\* A full batch went through the pipeline without abort: every index was
\* sent and checked, and the results channel is full and unread.
C37_Witness ==
    /\ Piped /\ ~abort /\ cpc = "finished"
    /\ Len(headers) = NumHeaders /\ in = Len(headers)
    /\ CheckedIndices = 0..(Len(headers) - 1)
    /\ Len(errorsOut) = Len(headers)


\* The workers about to write slot k of errors.
Writers(k) == {w \in DOMAIN wpc : wpc[w] = "verify" /\ windex[w] + 1 = k}

\* The coordinator is about to read slot k of errors.
Reading(k) == cpc = "emit" /\ out + 1 = k /\ checked[k]

\* Slot k was written, and its index then passed through the done channel.
Signalled(k) ==
    /\ errors[k] # Unset
    /\ checked[k]
    /\ (k - 1) \notin HeldIndices \cup DoneIndices

\* C38: in VerifyHeaders the coordinator reads errors[i] only after the
\* worker that verified index i has written it and signalled completion on
\* the done channel, and no two workers write the same slot: no slot is read
\* before it is written, and none is written while it is read.
C38_ReadAfterWrite ==
    Piped =>
        \A k \in 1..Len(headers) :
            /\ Cardinality(Writers(k)) <= 1
            /\ Reading(k) => Signalled(k) /\ Writers(k) = {}
            /\ checked[k] => Signalled(k)
            /\ k <= Len(errorsOut) => Signalled(k) /\ errorsOut[k] = errors[k]

\* The coordinator is about to read a slot while a worker is about to write
\* another one.
C38_Witness ==
    /\ Piped
    /\ \E k \in 1..Len(headers) : Reading(k) /\ Signalled(k)
    /\ \E k \in 1..Len(headers) : Writers(k) # {}


(***************************************************************************)
(* Sequences of adjustment steps.                                          *)
(***************************************************************************)
\* The largest n a further step is taken from.
MaxStepN == 3

\* The timespans of the steps: one for every branch of calcnp and of
\* calcnpsea.
StepSpans == {4, 6, 10, 15, 20, 100, 104, 120, 135, 200, 400, 700, 1000}

\* The (n, p) the next step starts from: the floors at first, then what the
\* step before returned.
StepFrom == IF call = NoCall THEN <<ParamsN, ParamsP>> ELSE call.ret

\* One more block before the Sea fork: calcnp on the current (n, p).
StepCalcnp(t) ==
    /\ StepFrom[1] <= MaxStepN
    /\ call' = [fn |-> "calcnp", args |-> <<t, StepFrom[1], StepFrom[2]>>,
                ret |-> calcnp(t, StepFrom[1], StepFrom[2])]
    /\ UNCHANGED nonCallVars

\* One more block after the Sea fork: calcnpsea on the current (n, p).
StepCalcnpsea(t) ==
    /\ StepFrom[1] <= MaxStepN
    /\ call' = [fn |-> "calcnpsea", args |-> <<t, StepFrom[1], StepFrom[2]>>,
                ret |-> calcnpsea(t, StepFrom[1], StepFrom[2])]
    /\ UNCHANGED nonCallVars

InitSteps == InitCalls /\ config = FrontierConfig

NextSteps ==
    \/ \E t \in StepSpans : StepCalcnp(t)
    \/ \E t \in StepSpans : StepCalcnpsea(t)

SpecSteps == InitSteps /\ [][NextSteps]_vars

\* The timespan below which a block counts as fast for the function called.
FastBelow == IF call.fn = "calcnp" THEN 102 ELSE 5

\* C33: along any sequence of calcnp and calcnpsea steps from the floors, p
\* never exceeds 256; a step taken at p = 256 leaves p at 256 or lowers it,
\* and when its timespan is below the fast threshold it returns (n + 1, 256).
C33_PCapped ==
    call # NoCall =>
        /\ call.args[3] <= 256 /\ call.ret[2] <= 256
        /\ call.args[3] = 256 =>
               /\ call.ret[2] <= call.args[3]
               /\ call.args[1] < FastBelow => call.ret = <<call.args[2] + 1, 256>>

\* A sequence of steps brought p to 256, and the next step, a fast one of
\* calcnp, raised n.
C33_Witness ==
    /\ call.fn = "calcnp" /\ call.args[3] = 256 /\ call.args[1] < 102
    /\ call.ret = <<call.args[2] + 1, 256>>

====
